---- MODULE Spec2Model ----
(***************************************************************************)
(* A model of the observability subsystem of src/src/config/observability.py *)
(* (Counter, Gauge, Histogram, MetricsRegistry, TraceSpan, Tracer,          *)
(* PerformanceMonitor, HealthCheck, HealthChecker, Observability and the    *)
(* global accessor), of EventHandler of src/src/core/event_handler.py and   *)
(* of OAuth2Authenticator of src/src/api/authentication.py.                 *)
(*                                                                           *)
(* Numbers: the source's float values are modelled as integers.  Histogram   *)
(* observations, bucket boundaries and latency samples are fixed-point       *)
(* thousandths (1.0 is 1000), so the default boundaries 0.005 .. 10.0 are    *)
(* the integers 5 .. 10000.  A mean is kept as the pair <<sum, count>>.      *)
(* Strings that the code strips (metric and operation names) are sequences   *)
(* of one-character strings, so that str.strip() is modelled by what it does.*)
(***************************************************************************)
EXTENDS Integers, Sequences, FiniteSets, TLC

VARIABLES
    \* ---- one Counter shared by the threads (Counter, lines 50-72)
    counter_value,      \* Counter._value
    counter_lock,       \* holder of Counter._lock, or "free"
    pc,                 \* thread -> position inside the Counter method it runs
    call,               \* thread -> the most recent call [op, arg] it made
    tmp,                \* thread -> the value read by the load of `_value += v`
    raised,             \* thread -> exception raised by its most recent call
    counter_expected,   \* history: value every accepted inc since the last reset adds up to
    counter_lastGot,    \* history: value returned by the most recent get()
    counter_maxGot,     \* history: largest value any get() has returned
    \* ---- one Histogram (Histogram, lines 103-162)
    hist_buckets,       \* Histogram.buckets
    hist_observations,  \* Histogram._observations, oldest first
    hist_maxlen,        \* maxlen of the _observations deque
    hist_sum,           \* Histogram._sum
    hist_count,         \* Histogram._count
    hist_call,          \* the most recent call [op, arg] made on the histogram
    hist_ret,           \* what that call returned
    hist_raised,        \* the exception it raised, or "none"
    hist_all,           \* history: every observation ever recorded, oldest first
    \* ---- one PerformanceMonitor (lines 405-504)
    pm_latencies,       \* PerformanceMonitor._latencies: operation name -> samples, oldest first
    pm_call,            \* the most recent call [op, arg] made on the monitor
    pm_ret,             \* what that call returned
    pm_raised,          \* the exception it raised, or "none"
    pm_start_times,     \* PerformanceMonitor._start_times: operation name -> start time
    pm_throughput,      \* PerformanceMonitor._throughput: operation name -> entries, oldest first
    pm_clock,           \* the value time.time() returned last
    pm_scopes,          \* thread -> the names of its open measure(...) scopes, innermost last
    pm_all,             \* history: operation name -> every latency ever recorded, oldest first
    \* ---- one MetricsRegistry and the metrics it created (lines 165-265)
    reg_heap,           \* the Metric instances created so far; an instance is its position
    reg_metrics,        \* MetricsRegistry._metrics: name -> labels key -> instance
    reg_call,           \* the most recent call [op, name, labels] made on the registry
    reg_ret,            \* the instance that call returned, 0 for None or no return
    reg_raised,         \* the exception it raised, or "none"
    reg_prev,           \* history: [ret, raised] of the call before it, when both are
                        \* get_or_create_counter calls with the same name and labels
    \* ---- one Tracer and the spans it created (lines 268-402)
    tr_spans,           \* Tracer._spans: span_id -> the TraceSpan's fields
    tr_active,          \* Tracer._active_spans: thread -> span_id
    tr_uuid,            \* number of uuid.uuid4() values drawn so far
    tr_clock,           \* the value time.time() returned last
    tr_scopes,          \* thread -> the spans of its open tracer.span(...) scopes, innermost last
    tr_call,            \* the most recent call [op, thread, arg] made on the tracer
    tr_ret,             \* the span_id that call returned, <<>> for None or no return
    tr_raised,          \* the exception that left it, or "none"
    \* ---- one Gauge (lines 75-100)
    gauge_value,        \* Gauge._value
    gauge_call,         \* the most recent call [op, arg] made on the gauge
    gauge_ret,          \* what get() returned last
    gauge_expected,     \* history: the last set argument plus the incs minus the decs since
    \* ---- one HealthChecker and its checks (lines 507-612)
    hc_checks,          \* HealthChecker._checks: name -> the HealthCheck's fields
    hc_clock,           \* the value time.time() returned last
    hc_call,            \* the most recent call [op, arg] made on the checker or a check
    hc_ret,             \* what that call returned
    hc_raised,          \* the exception that left it, or "none"
    \* ---- one Observability facade over the components above (lines 615-716)
    ob_enabled,         \* subsystem -> whether the facade was built with it enabled
    ob_call,            \* the most recent facade method called
    ob_ret,             \* what it returned
    ob_raised,          \* the exception that left it, "none" when it returned
    \* ---- the module-level _global_observability (lines 720-736)
    gl_instance,        \* _global_observability: Nil for None, else <<instance>>
    gl_made,            \* number of Observability instances constructed so far
    gl_pc,              \* thread -> position inside get_observability
    gl_local,           \* thread -> the instance it constructed and has not yet stored
    gl_call,            \* thread -> the most recent call [op, kind, arg, seen, made] it made
    gl_ret,             \* thread -> what that call returned
    gl_raised,          \* thread -> the exception that left it, or "none"
    gl_returned,        \* history: the instances get_observability has returned
    gl_was_set,         \* history: whether a set_observability call has stored
    \* ---- get_traces_summary by a thread of its own, statement by statement (lines 663-676)
    ts_pc,              \* position inside get_traces_summary
    ts_all_spans,       \* its local all_spans, the ids of the spans in the list
    ts_finished,        \* the value computed for "finished_spans"
    ts_ret,             \* what the last call returned
    \* ---- the inner dictionaries of MetricsRegistry._metrics as objects, and the mapping get_all_metrics returned (lines 257-260)
    sn_ids,             \* name -> the inner dict that _metrics holds under the name
    sn_dicts,           \* inner dict -> its entries, labels key -> instance
    sn_ret,             \* the mapping the last get_all_metrics returned, name -> inner dict
    sn_called,          \* whether get_all_metrics has returned
    sn_seen,            \* history: the (name, labels key) pairs in that mapping when it was returned
    \* ---- EventHandler (core/event_handler.py): the handler lists and an emit in progress
    ev_handlers,        \* _handlers: event -> list of handlers
    ev_wrappers,        \* number of wrappers that once() has created
    ev_pc,              \* "idle", or "emitting" inside the loop of emit
    ev_event,           \* the event of the emit in progress or last made
    ev_i,               \* position of the loop's list iterator
    ev_at_call,         \* history: the handlers of the event when emit was called
    ev_invoked,         \* history: the handlers the emit has invoked, in order
    ev_returned,        \* history: the last emit has returned
    ev_raised,          \* history: the last emit raised EventHandlerError
    \* ---- OAuth2Authenticator (api/authentication.py): the cached token, the lock and each thread's call
    au_token,           \* _token: Nil or <<the token>>
    au_expiry,          \* _token_expiry: Nil or <<the time>>
    au_now,             \* datetime.now()
    au_lock,            \* _lock: "free" or the thread that holds it
    au_pc,              \* thread -> where the thread is in its call
    au_ret,             \* thread -> Nil or <<what its last call returned>>
    au_raised,          \* thread -> "none" or the exception of its last call
    \* ---- HealthChecker used by several threads: the registry lock, each thread's position, the fields of the HealthCheck objects
    ht_checks,          \* _checks: the names registered, in insertion order
    ht_lock,            \* HealthChecker._lock: "free" or the thread that holds it
    ht_pc,              \* thread -> where the thread is in its call
    ht_arg,             \* thread -> the check that its register or unregister names
    ht_todo,            \* thread -> the checks its loop has still to visit
    ht_outcome,         \* thread -> what the probe it called did
    ht_last_check,      \* check -> whether _last_check is set
    ht_last_result,     \* check -> _last_result: Nil or <<boolean>>
    ht_last_error,      \* check -> _last_error: Nil or <<message>>
    ht_status,          \* thread -> Nil or <<the last HealthCheck.get_status() it obtained>>
    ht_calls,           \* number of calls made
    ht_completed,       \* history: the operations completed while another thread's probe was blocked
    \* ---- the locks of the module and the lock steps of each thread's operation
    lk_holder,          \* lock -> "free" or the thread that holds it
    lk_op,              \* thread -> the operation it is in, or "none"
    lk_i,               \* thread -> the step of the operation it is at
    lk_over             \* history: the threads that have been through an operation

counterVars == <<counter_value, counter_lock, pc, call, tmp, raised,
                 counter_expected, counter_lastGot, counter_maxGot>>

histVars == <<hist_buckets, hist_observations, hist_maxlen, hist_sum, hist_count,
              hist_call, hist_ret, hist_raised, hist_all>>

pmVars == <<pm_latencies, pm_call, pm_ret, pm_raised,
            pm_start_times, pm_throughput, pm_clock, pm_scopes, pm_all>>

regVars == <<reg_heap, reg_metrics, reg_call, reg_ret, reg_raised, reg_prev>>

tracerVars == <<tr_spans, tr_active, tr_uuid, tr_clock, tr_scopes, tr_call, tr_ret, tr_raised>>

gaugeVars == <<gauge_value, gauge_call, gauge_ret, gauge_expected>>

healthVars == <<hc_checks, hc_clock, hc_call, hc_ret, hc_raised>>

facadeVars == <<ob_enabled, ob_call, ob_ret, ob_raised>>

globalVars == <<gl_instance, gl_made, gl_pc, gl_local, gl_call, gl_ret, gl_raised,
                gl_returned, gl_was_set>>

\* the gauge, the health checker, the facade and the global accessor together
otherVars == <<gaugeVars, healthVars, facadeVars, globalVars>>

summaryVars == <<ts_pc, ts_all_spans, ts_finished, ts_ret>>

snapshotVars == <<sn_ids, sn_dicts, sn_ret, sn_called, sn_seen>>

eventVars == <<ev_handlers, ev_wrappers, ev_pc, ev_event, ev_i, ev_at_call, ev_invoked, ev_returned, ev_raised>>

authVars == <<au_token, au_expiry, au_now, au_lock, au_pc, au_ret, au_raised>>

healthThreadVars == <<ht_checks, ht_lock, ht_pc, ht_arg, ht_todo, ht_outcome, ht_last_check, ht_last_result, ht_last_error, ht_status, ht_calls, ht_completed>>

lockVars == <<lk_holder, lk_op, lk_i, lk_over>>

\* the variables of the models of concurrent and longer use
lateVars == <<summaryVars, snapshotVars, eventVars, authVars, healthThreadVars, lockVars>>

vars == <<counterVars, histVars, pmVars, regVars, tracerVars, otherVars, lateVars>>

----------------------------------------------------------------------------
\* Bounds of the model

Threads == {"t1", "t2"}

\* arguments tried for Counter.inc
IncArgs == {-1, 0, 1, 2}

\* cap on the total a Counter is driven to
MaxCounter == 3

\* observations tried for Histogram.observe, in thousandths
ObsValues == {-1000, 0, 1000, 2000, 3000, 11000}

\* `buckets` arguments tried for Histogram(...); <<>> stands for None
BucketArgs == {<<>>, <<1000, 3000>>}

\* cap on the number of observations recorded into the Histogram
MaxObs == 4

\* maxlen of the _observations deque in the specification that records
\* observations one by one (the source's 10000, scaled down so that the
\* window fills and evicts within MaxObs observations)
ObsCapacity == 3

\* largest number of samples held by a histogram or a latency deque whose
\* statistics are computed
MaxSamples == 101

\* operation names tried for PerformanceMonitor.get_latency_stats
OpNameArgs == {<<"o", "p">>, <<" ", "o", "p", " ">>, <<"z">>, <<" ">>}

\* metric names tried on the registry: a plain one, one with a leading blank
\* and a blank one
RegNames == {<<"x">>, <<" ", "x">>, <<" ">>}

\* label dictionaries tried on the registry, as sequences of items in
\* insertion order; <<>> is also what None becomes
RegLabels == {<<>>,
              <<<<"a", "1">>, <<"b", "2">>>>,
              <<<<"b", "2">>, <<"a", "1">>>>}

\* `buckets` arguments tried for register_histogram; <<>> stands for None
RegBucketArgs == {<<>>}

\* cap on the number of Metric instances the registry creates
MaxInstances == 2

\* cap on the value a registered counter or gauge is driven to and on the
\* number of observations recorded into a registered histogram
MaxMetricValue == 1

Max(a, b) == IF a >= b THEN a ELSE b

RECURSIVE SetSum(_, _)
\* sum of f[x] over the finite set S
SetSum(f, S) ==
    IF S = {} THEN 0
    ELSE LET x == CHOOSE y \in S : TRUE IN f[x] + SetSum(f, S \ {x})

----------------------------------------------------------------------------
\* Counter

NoCall == [op |-> "none", arg |-> 0]

CounterInit ==
    /\ counter_value = 0
    /\ counter_lock = "free"
    /\ pc = [t \in Threads |-> "idle"]
    /\ call = [t \in Threads |-> NoCall]
    /\ tmp = [t \in Threads |-> 0]
    /\ raised = [t \in Threads |-> "none"]
    /\ counter_expected = 0
    /\ counter_lastGot = 0
    /\ counter_maxGot = 0

\* the counter of a specification that does not use it
CounterIdle == CounterInit

\* threads that have entered inc's critical section and not yet stored
IncInFlight == {t \in Threads : pc[t] \in {"inc_read", "inc_write"}}

\* inc as it would be without the `value < 0` check
CounterIncCallNoCheck(t, v) ==
    /\ pc[t] = "idle"
    /\ counter_expected + v <= MaxCounter
    /\ counter_lock = "free"
    /\ counter_lock' = t
    /\ pc' = [pc EXCEPT ![t] = "inc_read"]
    /\ call' = [call EXCEPT ![t] = [op |-> "inc", arg |-> v]]
    /\ raised' = [raised EXCEPT ![t] = "none"]
    /\ counter_expected' = counter_expected + v
    /\ UNCHANGED <<counter_value, tmp, counter_lastGot, counter_maxGot>>

\* inc as it would be without `with self._lock`
CounterIncCallNoLock(t, v) ==
    /\ pc[t] = "idle"
    /\ IF v < 0
       THEN /\ raised' = [raised EXCEPT ![t] = "ValidationError"]
            /\ UNCHANGED <<pc, counter_expected>>
       ELSE /\ counter_expected + v <= MaxCounter
            /\ pc' = [pc EXCEPT ![t] = "inc_read"]
            /\ raised' = [raised EXCEPT ![t] = "none"]
            /\ counter_expected' = counter_expected + v
    /\ call' = [call EXCEPT ![t] = [op |-> "inc", arg |-> v]]
    /\ UNCHANGED <<counter_value, counter_lock, tmp, counter_lastGot, counter_maxGot>>

\* Counter.inc(v), up to the acquisition of the lock: a negative v raises
\* before the lock is touched; otherwise the thread enters `with self._lock`.
CounterIncCall(t, v) ==
    /\ pc[t] = "idle"
    /\ IF v < 0
       THEN /\ raised' = [raised EXCEPT ![t] = "ValidationError"]
            /\ UNCHANGED <<pc, counter_lock, counter_expected>>
       ELSE /\ counter_expected + v <= MaxCounter
            /\ counter_lock = "free"
            /\ counter_lock' = t
            /\ pc' = [pc EXCEPT ![t] = "inc_read"]
            /\ raised' = [raised EXCEPT ![t] = "none"]
            /\ counter_expected' = counter_expected + v
    /\ call' = [call EXCEPT ![t] = [op |-> "inc", arg |-> v]]
    /\ UNCHANGED <<counter_value, tmp, counter_lastGot, counter_maxGot>>

\* the load of `self._value += value`
CounterIncRead(t) ==
    /\ pc[t] = "inc_read"
    /\ tmp' = [tmp EXCEPT ![t] = counter_value]
    /\ pc' = [pc EXCEPT ![t] = "inc_write"]
    /\ UNCHANGED <<counter_value, counter_lock, call, raised,
                   counter_expected, counter_lastGot, counter_maxGot>>

\* the store as `-=` would do it
CounterIncWriteSub(t) ==
    /\ pc[t] = "inc_write"
    /\ counter_value' = tmp[t] - call[t].arg
    /\ counter_lock' = IF counter_lock = t THEN "free" ELSE counter_lock
    /\ pc' = [pc EXCEPT ![t] = "idle"]
    /\ UNCHANGED <<call, tmp, raised, counter_expected, counter_lastGot, counter_maxGot>>

\* the store of `self._value += value`, then the end of the with block
CounterIncWrite(t) ==
    /\ pc[t] = "inc_write"
    /\ counter_value' = tmp[t] + call[t].arg
    /\ counter_lock' = IF counter_lock = t THEN "free" ELSE counter_lock
    /\ pc' = [pc EXCEPT ![t] = "idle"]
    /\ UNCHANGED <<call, tmp, raised, counter_expected, counter_lastGot, counter_maxGot>>

\* Counter.get(): entry into `with self._lock`
CounterGetCall(t) ==
    /\ pc[t] = "idle"
    /\ counter_lock = "free"
    /\ counter_lock' = t
    /\ pc' = [pc EXCEPT ![t] = "get_read"]
    /\ call' = [call EXCEPT ![t] = [op |-> "get", arg |-> 0]]
    /\ raised' = [raised EXCEPT ![t] = "none"]
    /\ UNCHANGED <<counter_value, tmp, counter_expected, counter_lastGot, counter_maxGot>>

\* `return self._value` and the end of the with block
CounterGetReturn(t) ==
    /\ pc[t] = "get_read"
    /\ counter_lastGot' = counter_value
    /\ counter_maxGot' = Max(counter_maxGot, counter_value)
    /\ counter_lock' = "free"
    /\ pc' = [pc EXCEPT ![t] = "idle"]
    /\ UNCHANGED <<counter_value, call, tmp, raised, counter_expected>>

\* Counter.reset(): entry into `with self._lock`
CounterResetCall(t) ==
    /\ pc[t] = "idle"
    /\ counter_lock = "free"
    /\ counter_lock' = t
    /\ pc' = [pc EXCEPT ![t] = "reset_write"]
    /\ call' = [call EXCEPT ![t] = [op |-> "reset", arg |-> 0]]
    /\ raised' = [raised EXCEPT ![t] = "none"]
    /\ UNCHANGED <<counter_value, tmp, counter_expected, counter_lastGot, counter_maxGot>>

\* `self._value = 0.0` and the end of the with block
CounterResetWrite(t) ==
    /\ pc[t] = "reset_write"
    /\ counter_value' = 0
    /\ counter_expected' = SetSum([u \in Threads |-> call[u].arg], IncInFlight)
    /\ counter_lock' = "free"
    /\ pc' = [pc EXCEPT ![t] = "idle"]
    /\ UNCHANGED <<call, tmp, raised, counter_lastGot, counter_maxGot>>

AllIdle == \A t \in Threads : pc[t] = "idle"

----------------------------------------------------------------------------
\* Sequences

RECURSIVE SeqSum(_)
\* sum(s), by halves
SeqSum(s) ==
    IF s = <<>> THEN 0
    ELSE IF Len(s) = 1 THEN s[1]
    ELSE LET h == Len(s) \div 2
         IN SeqSum(SubSeq(s, 1, h)) + SeqSum(SubSeq(s, h + 1, Len(s)))

\* sorted(s): the elements of s in ascending order, equal elements in their
\* order in s.  Element i goes to the position after the elements smaller
\* than it and the equal elements before it.
Sorted(s) ==
    LET n == Len(s)
        \* position[i]: where s[i] goes (SubSeq makes it a sequence)
        position == SubSeq([i \in 1..n |->
                               1 + Cardinality({j \in 1..n :
                                       \/ s[j] < s[i]
                                       \/ s[j] = s[i] /\ j < i})], 1, n)
    IN SubSeq([p \in 1..n |-> s[CHOOSE i \in 1..n : position[i] = p]], 1, n)

\* deque.append on a deque(maxlen=m), without discarding anything
DequeAppendUnbounded(items, m, v) == Append(items, v)

\* deque.append on a deque(maxlen=m): a full deque discards its oldest item
DequeAppend(items, m, v) ==
    IF Len(items) >= m THEN Append(Tail(items), v) ELSE Append(items, v)

\* int(n * 0.95) and int(n * 0.99): the truncated product.  For every n up to
\* the deques' maxlen (10000 and 1000) the double-precision product n * 0.95
\* or n * 0.99 truncates to the integer floor(n * pct / 100).
PctIndexPlusOne(n, pct) == (n * pct) \div 100 + 1

PctIndex(n, pct) == (n * pct) \div 100

----------------------------------------------------------------------------
\* Histogram

DefaultBuckets == <<5, 10, 25, 50, 100, 250, 500, 1000, 2500, 5000, 10000>>

HistMaxlen == 10000

None == [none |-> TRUE]

\* Histogram.__init__(buckets=b) with a deque of maxlen m
HistogramNew(b, m) ==
    /\ hist_buckets = IF b = <<>> THEN DefaultBuckets ELSE b
    /\ hist_observations = <<>>
    /\ hist_maxlen = m
    /\ hist_sum = 0
    /\ hist_count = 0
    /\ hist_call = NoCall
    /\ hist_ret = None
    /\ hist_raised = "none"
    /\ hist_all = <<>>

HistogramInit == \E b \in BucketArgs : HistogramNew(b, ObsCapacity)

\* the histogram of a specification that does not use it
HistogramIdle == HistogramNew(<<>>, HistMaxlen)

\* observe as it would be without the `value < 0` check
HistogramObserveNoCheck(v) ==
    /\ hist_count < MaxObs
    /\ hist_observations' = DequeAppend(hist_observations, hist_maxlen, v)
    /\ hist_sum' = hist_sum + v
    /\ hist_count' = hist_count + 1
    /\ hist_all' = Append(hist_all, v)
    /\ hist_raised' = "none"
    /\ hist_call' = [op |-> "observe", arg |-> v]
    /\ hist_ret' = None
    /\ UNCHANGED <<hist_buckets, hist_maxlen>>

\* Histogram.observe(v)
HistogramObserve(v) ==
    /\ IF v < 0
       THEN /\ hist_raised' = "ValidationError"
            /\ UNCHANGED <<hist_observations, hist_sum, hist_count, hist_all>>
       ELSE /\ hist_count < MaxObs
            /\ hist_observations' = DequeAppend(hist_observations, hist_maxlen, v)
            /\ hist_sum' = hist_sum + v
            /\ hist_count' = hist_count + 1
            /\ hist_all' = Append(hist_all, v)
            /\ hist_raised' = "none"
    /\ hist_call' = [op |-> "observe", arg |-> v]
    /\ hist_ret' = None
    /\ UNCHANGED <<hist_buckets, hist_maxlen>>

RECURSIVE FirstBucketFrom(_, _, _)
\* the inner loop `for bucket in self.buckets: if obs <= bucket: ... break`,
\* from position i on: the position of the bucket that is incremented, 0 if none
FirstBucketFrom(obs, buckets, i) ==
    IF i > Len(buckets) THEN 0
    ELSE IF obs <= buckets[i] THEN i
    ELSE FirstBucketFrom(obs, buckets, i + 1)

\* buckets_count as the loops would leave it without the `break`
BucketsCountNoBreak(observations, buckets) ==
    [b \in {buckets[i] : i \in 1..Len(buckets)} |->
        Cardinality({<<j, i>> \in (1..Len(observations)) \X (1..Len(buckets)) :
                        observations[j] <= buckets[i] /\ buckets[i] = b})]

\* buckets_count after the loops of lines 144-150, keyed by boundary
BucketsCount(observations, buckets) ==
    [b \in {buckets[i] : i \in 1..Len(buckets)} |->
        Cardinality({j \in 1..Len(observations) :
            LET i == FirstBucketFrom(observations[j], buckets, 1)
            IN i # 0 /\ buckets[i] = b})]

\* the dictionary returned when nothing is retained (lines 134-141)
ZeroSummary(buckets) ==
    [count |-> 0, sum |-> 0, mean |-> <<0, 1>>, min |-> 0, max |-> 0,
     buckets |-> [b \in {buckets[i] : i \in 1..Len(buckets)} |-> 0]]

\* get reporting the size of the retained window as the count
HistogramGetRetainedCount(observations, sum, count, buckets) ==
    IF observations = <<>>
    THEN [raised |-> "none", value |-> ZeroSummary(buckets)]
    ELSE LET sorted_obs == Sorted(observations)
             n == Len(sorted_obs)
         IN [raised |-> "none",
             value |-> [count |-> n,
                        sum |-> sum,
                        mean |-> <<sum, n>>,
                        min |-> sorted_obs[1],
                        max |-> sorted_obs[n],
                        p50 |-> sorted_obs[n \div 2 + 1],
                        p95 |-> sorted_obs[PctIndex(n, 95) + 1],
                        p99 |-> sorted_obs[PctIndex(n, 99) + 1],
                        buckets |-> BucketsCount(observations, buckets)]]

\* Histogram.get() on the given fields: [raised, value].  An index at or past
\* len(sorted_obs) raises IndexError.
HistogramGet(observations, sum, count, buckets) ==
    IF observations = <<>>
    THEN [raised |-> "none", value |-> ZeroSummary(buckets)]
    ELSE LET sorted_obs == Sorted(observations)
             n == Len(sorted_obs)
             i50 == n \div 2
             i95 == PctIndex(n, 95)
             i99 == PctIndex(n, 99)
         IN IF i50 >= n \/ i95 >= n \/ i99 >= n
            THEN [raised |-> "IndexError", value |-> None]
            ELSE [raised |-> "none",
                  value |-> [count |-> count,
                             sum |-> sum,
                             mean |-> IF count > 0 THEN <<sum, count>> ELSE <<0, 1>>,
                             min |-> sorted_obs[1],
                             max |-> sorted_obs[n],
                             p50 |-> sorted_obs[i50 + 1],
                             p95 |-> sorted_obs[i95 + 1],
                             p99 |-> sorted_obs[i99 + 1],
                             buckets |-> BucketsCount(observations, buckets)]]

\* a call of Histogram.get()
HistogramGetCall ==
    LET r == HistogramGet(hist_observations, hist_sum, hist_count, hist_buckets)
    IN /\ hist_call' = [op |-> "get", arg |-> 0]
       /\ hist_ret' = r.value
       /\ hist_raised' = r.raised
       /\ UNCHANGED <<hist_buckets, hist_observations, hist_maxlen, hist_sum,
                      hist_count, hist_all>>

----------------------------------------------------------------------------
\* validators

RECURSIVE LStrip(_)
LStrip(s) == IF s # <<>> /\ Head(s) = " " THEN LStrip(Tail(s)) ELSE s

RECURSIVE RStrip(_)
RStrip(s) ==
    IF s # <<>> /\ s[Len(s)] = " " THEN RStrip(SubSeq(s, 1, Len(s) - 1)) ELSE s

\* str.strip()
Strip(s) == RStrip(LStrip(s))

\* validate_string(value, field, min_length, max_length) of a str value with
\* allow_empty left False: [raised, value]; max_length 0 stands for None
ValidateString(value, min_length, max_length) ==
    LET v == Strip(value)
    IN IF v = <<>> \/ Len(v) < min_length \/ (max_length > 0 /\ Len(v) > max_length)
       THEN [raised |-> "ValidationError", value |-> v]
       ELSE [raised |-> "none", value |-> v]

----------------------------------------------------------------------------
\* PerformanceMonitor

\* PerformanceMonitor.__init__
PerformanceMonitorInit ==
    /\ pm_latencies = <<>>
    /\ pm_call = NoCall
    /\ pm_ret = None
    /\ pm_raised = "none"
    /\ pm_start_times = <<>>
    /\ pm_throughput = <<>>
    /\ pm_clock = 0
    /\ pm_scopes = [t \in Threads |-> <<>>]
    /\ pm_all = <<>>

\* the monitor of a specification that does not use it
PerformanceMonitorIdle == PerformanceMonitorInit

\* the dictionary returned when the operation has no samples (lines 459-467)
ZeroLatencyStats ==
    [count |-> 0, mean |-> <<0, 1>>, min |-> 0, max |-> 0, p50 |-> 0, p95 |-> 0, p99 |-> 0]

\* PerformanceMonitor.get_latency_stats(name) on the given _latencies:
\* [raised, value].  An index at or past len(sorted_latencies) raises IndexError.
GetLatencyStats(all_latencies, name) ==
    LET checked == ValidateString(name, 1, 0)
        operation_name == checked.value
        latencies == IF operation_name \in DOMAIN all_latencies
                     THEN all_latencies[operation_name] ELSE <<>>
        sorted_latencies == Sorted(latencies)
        n == Len(sorted_latencies)
        i50 == n \div 2
        i95 == PctIndex(n, 95)
        i99 == PctIndex(n, 99)
    IN IF checked.raised # "none" THEN [raised |-> checked.raised, value |-> None]
       ELSE IF latencies = <<>> THEN [raised |-> "none", value |-> ZeroLatencyStats]
       ELSE IF i50 >= n \/ i95 >= n \/ i99 >= n
            THEN [raised |-> "IndexError", value |-> None]
       ELSE [raised |-> "none",
             value |-> [count |-> Len(latencies),
                        mean |-> <<SeqSum(latencies), Len(latencies)>>,
                        min |-> sorted_latencies[1],
                        max |-> sorted_latencies[n],
                        p50 |-> sorted_latencies[i50 + 1],
                        p95 |-> sorted_latencies[i95 + 1],
                        p99 |-> sorted_latencies[i99 + 1]]]

\* a call of PerformanceMonitor.get_latency_stats(name)
GetLatencyStatsCall(name) ==
    LET r == GetLatencyStats(pm_latencies, name)
    IN /\ pm_call' = [op |-> "get_latency_stats", arg |-> name]
       /\ pm_ret' = r.value
       /\ pm_raised' = r.raised
       /\ UNCHANGED <<pm_latencies, pm_start_times, pm_throughput, pm_clock, pm_scopes, pm_all>>

----------------------------------------------------------------------------
\* Metric and MetricsRegistry

\* the order of the label names under sorted()
LabelOrder == ("a" :> 1) @@ ("b" :> 2)

\* Metric.get_labels_key(): "" for no labels, else the items sorted by label
\* name; the key "a=1,b=2" is kept as the sequence of its items
LabelsKey(labels) ==
    IF labels = <<>> THEN <<>>
    ELSE LET n == Len(labels)
             position == [i \in 1..n |->
                             1 + Cardinality({j \in 1..n :
                                     LabelOrder[labels[j][1]] < LabelOrder[labels[i][1]]})]
         IN SubSeq([p \in 1..n |-> labels[CHOOSE i \in 1..n : position[i] = p]], 1, n)

\* a metric of the given kind as its constructor leaves it
ZeroMetric(kind, buckets) ==
    IF kind = "histogram"
    THEN [kind |-> kind,
          buckets |-> IF buckets = <<>> THEN DefaultBuckets ELSE buckets,
          observations |-> <<>>, sum |-> 0, count |-> 0]
    ELSE [kind |-> kind, value |-> 0]

\* Metric.__init__ reached from Counter, Gauge or Histogram: [raised, value]
MetricNew(kind, name, buckets) ==
    IF ValidateString(name, 1, 200).raised # "none"
    THEN [raised |-> "ValidationError", value |-> None]
    ELSE [raised |-> "none", value |-> ZeroMetric(kind, buckets)]

\* Counter(*args): __init__(self, name, description, labels) takes at most
\* three positional arguments
CounterNew(args) ==
    IF Len(args) > 3
    THEN [raised |-> "TypeError", value |-> None]
    ELSE MetricNew("counter", args[1], <<>>)

NoRegCall == [op |-> "none", name |-> <<>>, labels |-> <<>>]

NoPrev == [ret |-> 0, raised |-> "no call"]

\* MetricsRegistry.__init__
RegistryInit ==
    /\ reg_heap = <<>>
    /\ reg_metrics = <<>>
    /\ reg_call = NoRegCall
    /\ reg_ret = 0
    /\ reg_raised = "none"
    /\ reg_prev = NoPrev

\* the registry of a specification that does not use it
RegistryIdle == RegistryInit

\* self._metrics.get(name, {}).get(labels_key): the instance, 0 for None
Lookup(metrics, name, key) ==
    IF name \in DOMAIN metrics /\ key \in DOMAIN metrics[name]
    THEN metrics[name][key] ELSE 0

\* register_* returning the instance already registered under the signature
\* when there is one
RegisterReusing(kind, name, labels, buckets) ==
    LET made == IF kind = "counter" THEN CounterNew(<<name, <<>>, labels>>)
                ELSE MetricNew(kind, name, buckets)
        id == Len(reg_heap) + 1
        key == LabelsKey(labels)
        inner == IF name \in DOMAIN reg_metrics THEN reg_metrics[name] ELSE <<>>
    IN IF made.raised # "none"
       THEN /\ reg_raised' = made.raised
            /\ reg_ret' = 0
            /\ UNCHANGED <<reg_heap, reg_metrics>>
       ELSE IF Lookup(reg_metrics, name, key) # 0
       THEN /\ reg_raised' = "none"
            /\ reg_ret' = Lookup(reg_metrics, name, key)
            /\ UNCHANGED <<reg_heap, reg_metrics>>
       ELSE /\ Len(reg_heap) < MaxInstances
            /\ reg_heap' = Append(reg_heap, made.value)
            /\ reg_metrics' = (name :> ((key :> id) @@ inner)) @@ reg_metrics
            /\ reg_ret' = id
            /\ reg_raised' = "none"

\* the body of register_counter / register_gauge / register_histogram: the
\* constructor, get_labels_key, and the store into _metrics[name][labels_key]
Register(kind, name, labels, buckets) ==
    LET made == IF kind = "counter" THEN CounterNew(<<name, <<>>, labels>>)
                ELSE MetricNew(kind, name, buckets)
        id == Len(reg_heap) + 1
        key == LabelsKey(labels)
        inner == IF name \in DOMAIN reg_metrics THEN reg_metrics[name] ELSE <<>>
    IN IF made.raised # "none"
       THEN /\ reg_raised' = made.raised
            /\ reg_ret' = 0
            /\ UNCHANGED <<reg_heap, reg_metrics>>
       ELSE /\ Len(reg_heap) < MaxInstances
            /\ reg_heap' = Append(reg_heap, made.value)
            /\ reg_metrics' = (name :> ((key :> id) @@ inner)) @@ reg_metrics
            /\ reg_ret' = id
            /\ reg_raised' = "none"

\* MetricsRegistry.register_counter(name, labels=labels)
RegisterCounter(name, labels) ==
    /\ Register("counter", name, labels, <<>>)
    /\ reg_call' = [op |-> "register_counter", name |-> name, labels |-> labels]
    /\ reg_prev' = NoPrev

\* MetricsRegistry.register_gauge(name, labels=labels)
RegisterGauge(name, labels) ==
    /\ Register("gauge", name, labels, <<>>)
    /\ reg_call' = [op |-> "register_gauge", name |-> name, labels |-> labels]
    /\ reg_prev' = NoPrev

\* MetricsRegistry.register_histogram(name, labels=labels, buckets=buckets)
RegisterHistogram(name, labels, buckets) ==
    /\ Register("histogram", name, labels, buckets)
    /\ reg_call' = [op |-> "register_histogram", name |-> name, labels |-> labels]
    /\ reg_prev' = NoPrev

\* MetricsRegistry.get_metric(name, labels): [raised, value].  After the
\* name check it builds Counter("", MetricType.COUNTER, "", labels or {}) to
\* compute the labels key.
GetMetric(metrics, name, labels) ==
    LET checked == ValidateString(name, 1, 0)
        probe == CounterNew(<<<<>>, "counter", <<>>, labels>>)
    IN IF checked.raised # "none" THEN [raised |-> checked.raised, value |-> 0]
       ELSE IF probe.raised # "none" THEN [raised |-> probe.raised, value |-> 0]
       ELSE [raised |-> "none",
             value |-> Lookup(metrics, checked.value, LabelsKey(labels))]

\* a call of MetricsRegistry.get_metric(name, labels)
GetMetricCall(name, labels) ==
    LET r == GetMetric(reg_metrics, name, labels)
    IN /\ reg_call' = [op |-> "get_metric", name |-> name, labels |-> labels]
       /\ reg_ret' = r.value
       /\ reg_raised' = r.raised
       /\ reg_prev' = NoPrev
       /\ UNCHANGED <<reg_heap, reg_metrics>>

\* the body of get_or_create_counter / _gauge / _histogram
GetOrCreate(kind, name, labels, buckets) ==
    LET r == GetMetric(reg_metrics, name, labels)
    IN IF r.raised # "none"
       THEN /\ reg_raised' = r.raised
            /\ reg_ret' = 0
            /\ UNCHANGED <<reg_heap, reg_metrics>>
       ELSE IF r.value # 0 /\ reg_heap[r.value].kind = kind
       THEN /\ reg_raised' = "none"
            /\ reg_ret' = r.value
            /\ UNCHANGED <<reg_heap, reg_metrics>>
       ELSE Register(kind, name, labels, buckets)

\* the items of a label dictionary
Items(labels) == {labels[i] : i \in 1..Len(labels)}

\* MetricsRegistry.get_or_create_counter(name, labels=labels)
GetOrCreateCounter(name, labels) ==
    /\ GetOrCreate("counter", name, labels, <<>>)
    /\ reg_call' = [op |-> "get_or_create_counter", name |-> name, labels |-> labels]
    /\ reg_prev' = IF /\ reg_call.op = "get_or_create_counter"
                      /\ reg_call.name = name
                      /\ Items(reg_call.labels) = Items(labels)
                   THEN [ret |-> reg_ret, raised |-> reg_raised]
                   ELSE NoPrev

\* MetricsRegistry.get_or_create_gauge(name, labels=labels)
GetOrCreateGauge(name, labels) ==
    /\ GetOrCreate("gauge", name, labels, <<>>)
    /\ reg_call' = [op |-> "get_or_create_gauge", name |-> name, labels |-> labels]
    /\ reg_prev' = NoPrev

\* MetricsRegistry.get_or_create_histogram(name, labels=labels, buckets=buckets)
GetOrCreateHistogram(name, labels, buckets) ==
    /\ GetOrCreate("histogram", name, labels, buckets)
    /\ reg_call' = [op |-> "get_or_create_histogram", name |-> name, labels |-> labels]
    /\ reg_prev' = NoPrev

\* MetricsRegistry.clear()
RegistryClear ==
    /\ reg_metrics' = <<>>
    /\ reg_call' = [op |-> "clear", name |-> <<>>, labels |-> <<>>]
    /\ reg_ret' = 0
    /\ reg_raised' = "none"
    /\ reg_prev' = NoPrev
    /\ UNCHANGED reg_heap

\* inc(1.0) on the Counter or Gauge instance i, through a reference a
\* register_* call returned
MetricInc(i) ==
    /\ i \in 1..Len(reg_heap)
    /\ reg_heap[i].kind \in {"counter", "gauge"}
    /\ reg_heap[i].value < MaxMetricValue
    /\ reg_heap' = [reg_heap EXCEPT ![i].value = @ + 1]
    /\ reg_call' = [op |-> "inc", name |-> <<>>, labels |-> <<>>]
    /\ reg_ret' = 0
    /\ reg_raised' = "none"
    /\ reg_prev' = NoPrev
    /\ UNCHANGED reg_metrics

\* observe(1.0) on the Histogram instance i, through a reference a
\* register_histogram call returned
MetricObserve(i) ==
    /\ i \in 1..Len(reg_heap)
    /\ reg_heap[i].kind = "histogram"
    /\ reg_heap[i].count < MaxMetricValue
    /\ reg_heap' = [reg_heap EXCEPT
                       ![i].observations = DequeAppend(@, HistMaxlen, 1000),
                       ![i].sum = @ + 1000,
                       ![i].count = @ + 1]
    /\ reg_call' = [op |-> "observe", name |-> <<>>, labels |-> <<>>]
    /\ reg_ret' = 0
    /\ reg_raised' = "none"
    /\ reg_prev' = NoPrev
    /\ UNCHANGED reg_metrics

----------------------------------------------------------------------------
\* Statistics of a filled window: the histogram and the monitor hold the same
\* n samples, n up to MaxSamples, and their summaries are computed.

\* n samples in no particular order, with repeated values (k = 1) or
\* without (k = 2)
Samples(n, k) ==
    [i \in 1..n |-> IF k = 1 THEN (i * i) % 7 ELSE (i * 37) % 103]

\* the operation name the samples are recorded under
SampledOperation == <<"o", "p">>

\* a histogram with default buckets into which the samples s were observed
HistogramHolding(s) ==
    /\ hist_buckets = DefaultBuckets
    /\ hist_observations = s
    /\ hist_maxlen = HistMaxlen
    /\ hist_sum = SeqSum(s)
    /\ hist_count = Len(s)
    /\ hist_call = NoCall
    /\ hist_ret = None
    /\ hist_raised = "none"
    /\ hist_all = s

\* a monitor for which the durations s of SampledOperation were recorded
PerformanceMonitorHolding(s) ==
    /\ pm_latencies = IF s = <<>> THEN <<>> ELSE (SampledOperation :> s)
    /\ pm_call = NoCall
    /\ pm_ret = None
    /\ pm_raised = "none"
    /\ pm_start_times = <<>>
    /\ pm_throughput = <<>>
    /\ pm_clock = 0
    /\ pm_scopes = [t \in Threads |-> <<>>]
    /\ pm_all = IF s = <<>> THEN <<>> ELSE (SampledOperation :> s)

----------------------------------------------------------------------------
\* TraceSpan and Tracer

\* cap on the number of spans the tracer creates
MaxSpans == 2

\* the values tried for what time.time() returns
Times == {0, 1}

\* cap on the number of tracer.span(...) scopes open at once, over all threads
MaxScopes == 1

\* operation names tried on the tracer: a plain one and a blank one
SpanNames == {<<"r">>, <<" ">>}

\* None as the value of an optional field or argument; a value v that is
\* present is <<v>>
Nil == <<>>

\* the values time.time() can return after it returned c
Tick(c) == {now \in Times : now >= c}

\* TraceSpan.__init__ with a uuid trace_id and span_id and an operation name
\* that start_span has validated
TraceSpanNew(trace_id, span_id, parent_span_id, operation_name, now) ==
    [trace_id |-> trace_id,
     span_id |-> span_id,
     parent_span_id |-> parent_span_id,
     operation_name |-> ValidateString(operation_name, 1, 0).value,
     start_time |-> now,
     end_time |-> Nil,
     duration |-> Nil]

NoTracerCall == [op |-> "none", thread |-> "none", arg |-> Nil]

\* Tracer.__init__ with a valid service name
TracerInit ==
    /\ tr_spans = <<>>
    /\ tr_active = <<>>
    /\ tr_uuid = 0
    /\ tr_clock = 0
    /\ tr_scopes = [t \in Threads |-> <<>>]
    /\ tr_call = NoTracerCall
    /\ tr_ret = Nil
    /\ tr_raised = "none"

\* the tracer of a specification that does not use it
TracerIdle == TracerInit

\* start_span that stores the span and leaves the active-span map alone
StartSpanNotActive(t, operation_name, parent_span_id, trace_id, now) ==
    LET checked == ValidateString(operation_name, 1, 0)
        drawn == IF trace_id = Nil THEN 1 ELSE 0
        tid == IF trace_id = Nil THEN tr_uuid + 1 ELSE trace_id[1]
        span_id == tr_uuid + drawn + 1
    IN IF checked.raised # "none"
       THEN /\ tr_raised' = checked.raised
            /\ tr_ret' = Nil
            /\ UNCHANGED <<tr_spans, tr_active, tr_uuid, tr_clock>>
       ELSE /\ Cardinality(DOMAIN tr_spans) < MaxSpans
            /\ tr_spans' = (span_id :> TraceSpanNew(tid, span_id, parent_span_id,
                                                    operation_name, now)) @@ tr_spans
            /\ tr_active' = tr_active
            /\ tr_uuid' = tr_uuid + drawn + 1
            /\ tr_clock' = now
            /\ tr_ret' = <<span_id>>
            /\ tr_raised' = "none"

\* Tracer.start_span(operation_name, parent_span_id, tags, trace_id) called by
\* thread t: the name check, uuid4 for the trace_id when none is given and
\* for the span_id, the TraceSpan, the store into _spans and _active_spans
StartSpan(t, operation_name, parent_span_id, trace_id, now) ==
    LET checked == ValidateString(operation_name, 1, 0)
        drawn == IF trace_id = Nil THEN 1 ELSE 0
        tid == IF trace_id = Nil THEN tr_uuid + 1 ELSE trace_id[1]
        span_id == tr_uuid + drawn + 1
    IN IF checked.raised # "none"
       THEN /\ tr_raised' = checked.raised
            /\ tr_ret' = Nil
            /\ UNCHANGED <<tr_spans, tr_active, tr_uuid, tr_clock>>
       ELSE /\ Cardinality(DOMAIN tr_spans) < MaxSpans
            /\ tr_spans' = (span_id :> TraceSpanNew(tid, span_id, parent_span_id,
                                                    operation_name, now)) @@ tr_spans
            /\ tr_active' = (t :> span_id) @@ tr_active
            /\ tr_uuid' = tr_uuid + drawn + 1
            /\ tr_clock' = now
            /\ tr_ret' = <<span_id>>
            /\ tr_raised' = "none"

\* a call of Tracer.start_span(operation_name) by thread t
TracerStartSpanCall(t, operation_name) ==
    \E now \in Tick(tr_clock) :
       /\ StartSpan(t, operation_name, Nil, Nil, now)
       /\ tr_call' = [op |-> "start_span", thread |-> t, arg |-> operation_name]
       /\ UNCHANGED tr_scopes

\* Tracer.get_active_span() in thread t: the span, Nil for None
GetActiveSpan(active, spans, t) ==
    IF t \in DOMAIN active /\ active[t] \in DOMAIN spans THEN <<active[t]>> ELSE Nil

\* a call of Tracer.get_active_span() by thread t
TracerGetActiveSpanCall(t) ==
    /\ tr_call' = [op |-> "get_active_span", thread |-> t, arg |-> Nil]
    /\ tr_ret' = GetActiveSpan(tr_active, tr_spans, t)
    /\ tr_raised' = "none"
    /\ UNCHANGED <<tr_spans, tr_active, tr_uuid, tr_clock, tr_scopes>>

\* TraceSpan.finish() on the span s at time now
TraceSpanFinish(spans, s, now) ==
    [spans EXCEPT ![s].end_time = <<now>>,
                  ![s].duration = <<now - spans[s].start_time>>]

\* Tracer.finish_span(span) called by thread t: span.finish(), then the
\* thread's entry of _active_spans is deleted when it has one
FinishSpan(t, s, now) ==
    /\ tr_spans' = TraceSpanFinish(tr_spans, s, now)
    /\ tr_active' = [x \in DOMAIN tr_active \ {t} |-> tr_active[x]]
    /\ tr_clock' = now

\* a call of Tracer.finish_span(s) by thread t, s a span some caller holds
TracerFinishSpanCall(t, s) ==
    /\ s \in DOMAIN tr_spans
    /\ \E now \in Tick(tr_clock) : FinishSpan(t, s, now)
    /\ tr_call' = [op |-> "finish_span", thread |-> t, arg |-> <<s>>]
    /\ tr_ret' = Nil
    /\ tr_raised' = "none"
    /\ UNCHANGED <<tr_uuid, tr_scopes>>

\* the number of open tracer.span(...) scopes
OpenScopes == SetSum([t \in Threads |-> Len(tr_scopes[t])], Threads)

\* the parent and the trace that tracer.span(...) hands to start_span: none
SpanParentNone(active_span) == [parent_span_id |-> Nil, trace_id |-> Nil]

\* the parent and the trace that tracer.span(...) hands to start_span, from
\* the span get_active_span() returned (lines 384-385)
SpanParent(active_span) ==
    IF active_span # Nil
    THEN [parent_span_id |-> <<tr_spans[active_span[1]].span_id>>,
          trace_id |-> <<tr_spans[active_span[1]].trace_id>>]
    ELSE [parent_span_id |-> Nil, trace_id |-> Nil]

\* thread t enters `with tracer.span(operation_name)`: the generator runs up
\* to its yield; an error of start_span leaves the scope unentered
TracerSpanEnter(t, operation_name) ==
    LET active_span == GetActiveSpan(tr_active, tr_spans, t)
        from == SpanParent(active_span)
    IN /\ OpenScopes < MaxScopes
       /\ \E now \in Tick(tr_clock) :
             StartSpan(t, operation_name, from.parent_span_id, from.trace_id, now)
       /\ tr_call' = [op |-> "span_enter", thread |-> t, arg |-> operation_name]
       /\ tr_scopes' = IF tr_raised' = "none"
                       THEN [tr_scopes EXCEPT ![t] = Append(@, tr_ret'[1])]
                       ELSE tr_scopes

\* the exit of a scope whose body raised, without the finally clause
SpanExitNoFinally(t, s, error, now) ==
    IF error
    THEN /\ UNCHANGED <<tr_spans, tr_active, tr_clock>>
         /\ tr_raised' = "BodyError"
    ELSE /\ FinishSpan(t, s, now)
         /\ tr_raised' = "none"

\* what follows the yield of tracer.span(...): the finally clause calls
\* finish_span(span), and an error of the body goes on to the caller
SpanExit(t, s, error, now) ==
    /\ FinishSpan(t, s, now)
    /\ tr_raised' = IF error THEN "BodyError" ELSE "none"

\* the body of thread t's innermost tracer.span(...) scope completes
\* (error = FALSE) or raises (error = TRUE), and the scope is left
TracerSpanExit(t, error) ==
    /\ tr_scopes[t] # <<>>
    /\ LET s == tr_scopes[t][Len(tr_scopes[t])]
       IN /\ \E now \in Tick(tr_clock) : SpanExit(t, s, error, now)
          /\ tr_call' = [op |-> IF error THEN "span_exit_error" ELSE "span_exit",
                         thread |-> t, arg |-> <<s>>]
    /\ tr_ret' = Nil
    /\ tr_scopes' = [tr_scopes EXCEPT ![t] = SubSeq(@, 1, Len(@) - 1)]
    /\ UNCHANGED tr_uuid

----------------------------------------------------------------------------
\* PerformanceMonitor: timing and throughput

\* maxlen of the deque of latency samples of one operation (line 409)
LatencyMaxlen == 1000

\* maxlen of the deque of throughput entries of one operation (line 410)
ThroughputMaxlen == 100

\* cap on the number of latency samples recorded on top of those the monitor
\* starts with
MaxEnds == 1

\* cap on the number of measure(...) scopes open at once, over all threads
MaxMeasures == 2

\* `count` arguments tried for record_throughput
ThroughputCounts == {0, 2}

\* operation names tried on the monitor's timing and throughput methods: two
\* operations and a blank name
MonitorNames == {<<"o", "p">>, <<"z">>, <<" ">>}

\* the latencies of a monitor that has timed SampledOperation LatencyMaxlen
\* times, with durations of 0 and 1
FilledLatencies == SubSeq([i \in 1..LatencyMaxlen |-> i % 2], 1, LatencyMaxlen)

\* the number of latency samples recorded so far, for all operations
Recorded == SetSum([n \in DOMAIN pm_all |-> Len(pm_all[n])], DOMAIN pm_all)

\* the model records at most MaxEnds samples on top of the initial ones
CanRecord ==
    \/ Recorded < MaxEnds
    \/ Recorded >= LatencyMaxlen /\ Recorded < LatencyMaxlen + MaxEnds

\* f without the key k (del f[k])
Without(f, k) == [x \in DOMAIN f \ {k} |-> f[x]]

\* f[k] of a defaultdict of deques: an empty deque when k is not a key
DequeOf(f, k) == IF k \in DOMAIN f THEN f[k] ELSE <<>>

\* PerformanceMonitor.start_operation(operation_name) at time now:
\* [raised, start_times, clock]
StartOperation(operation_name, now) ==
    LET checked == ValidateString(operation_name, 1, 0)
    IN IF checked.raised # "none"
       THEN [raised |-> checked.raised, start_times |-> pm_start_times, clock |-> pm_clock]
       ELSE [raised |-> "none",
             start_times |-> (checked.value :> now) @@ pm_start_times,
             clock |-> now]

\* a call of PerformanceMonitor.start_operation(operation_name)
StartOperationCall(operation_name) ==
    \E now \in Tick(pm_clock) :
       LET r == StartOperation(operation_name, now)
       IN /\ pm_call' = [op |-> "start_operation", arg |-> operation_name]
          /\ pm_ret' = None
          /\ pm_raised' = r.raised
          /\ pm_start_times' = r.start_times
          /\ pm_clock' = r.clock
          /\ UNCHANGED <<pm_latencies, pm_throughput, pm_scopes, pm_all>>

\* end_operation that records a sample of 0.0 for an operation that was not
\* started
EndOperationRecordsZero(operation_name, now) ==
    LET checked == ValidateString(operation_name, 1, 0)
        name == checked.value
        started == name \in DOMAIN pm_start_times
        duration == IF started THEN now - pm_start_times[name] ELSE 0
    IN IF checked.raised # "none"
       THEN [raised |-> checked.raised, value |-> None, start_times |-> pm_start_times,
             latencies |-> pm_latencies, all |-> pm_all, clock |-> pm_clock]
       ELSE [raised |-> "none",
             value |-> duration,
             start_times |-> Without(pm_start_times, name),
             latencies |-> (name :> DequeAppend(DequeOf(pm_latencies, name),
                                                LatencyMaxlen, duration)) @@ pm_latencies,
             all |-> (name :> Append(DequeOf(pm_all, name), duration)) @@ pm_all,
             clock |-> IF started THEN now ELSE pm_clock]

\* end_operation whose latency deque has no maxlen
EndOperationUnbounded(operation_name, now) ==
    LET checked == ValidateString(operation_name, 1, 0)
        name == checked.value
        duration == now - pm_start_times[name]
    IN IF checked.raised # "none"
       THEN [raised |-> checked.raised, value |-> None, start_times |-> pm_start_times,
             latencies |-> pm_latencies, all |-> pm_all, clock |-> pm_clock]
       ELSE IF name \notin DOMAIN pm_start_times
       THEN [raised |-> "none", value |-> 0, start_times |-> pm_start_times,
             latencies |-> pm_latencies, all |-> pm_all, clock |-> pm_clock]
       ELSE [raised |-> "none",
             value |-> duration,
             start_times |-> Without(pm_start_times, name),
             latencies |-> (name :> Append(DequeOf(pm_latencies, name), duration))
                              @@ pm_latencies,
             all |-> (name :> Append(DequeOf(pm_all, name), duration)) @@ pm_all,
             clock |-> now]

\* PerformanceMonitor.end_operation(operation_name) at time now:
\* [raised, value, start_times, latencies, all, clock].  Without a pending
\* start it returns 0.0 before it reads the time.
EndOperation(operation_name, now) ==
    LET checked == ValidateString(operation_name, 1, 0)
        name == checked.value
        duration == now - pm_start_times[name]
    IN IF checked.raised # "none"
       THEN [raised |-> checked.raised, value |-> None, start_times |-> pm_start_times,
             latencies |-> pm_latencies, all |-> pm_all, clock |-> pm_clock]
       ELSE IF name \notin DOMAIN pm_start_times
       THEN [raised |-> "none", value |-> 0, start_times |-> pm_start_times,
             latencies |-> pm_latencies, all |-> pm_all, clock |-> pm_clock]
       ELSE [raised |-> "none",
             value |-> duration,
             start_times |-> Without(pm_start_times, name),
             latencies |-> (name :> DequeAppend(DequeOf(pm_latencies, name),
                                                LatencyMaxlen, duration)) @@ pm_latencies,
             all |-> (name :> Append(DequeOf(pm_all, name), duration)) @@ pm_all,
             clock |-> now]

\* a call of PerformanceMonitor.end_operation(operation_name)
EndOperationCall(operation_name) ==
    /\ Strip(operation_name) \in DOMAIN pm_start_times => CanRecord
    /\ \E now \in Tick(pm_clock) :
          LET r == EndOperation(operation_name, now)
          IN /\ pm_call' = [op |-> "end_operation", arg |-> operation_name]
             /\ pm_ret' = r.value
             /\ pm_raised' = r.raised
             /\ pm_start_times' = r.start_times
             /\ pm_latencies' = r.latencies
             /\ pm_all' = r.all
             /\ pm_clock' = r.clock
             /\ UNCHANGED <<pm_throughput, pm_scopes>>

\* the number of open measure(...) scopes
OpenMeasures == SetSum([t \in Threads |-> Len(pm_scopes[t])], Threads)

\* thread t enters `with monitor.measure(operation_name)`: start_operation,
\* whose error leaves the scope unentered
MeasureEnter(t, operation_name) ==
    /\ OpenMeasures < MaxMeasures
    /\ \E now \in Tick(pm_clock) :
          LET r == StartOperation(operation_name, now)
          IN /\ pm_call' = [op |-> "measure_enter", arg |-> operation_name]
             /\ pm_ret' = None
             /\ pm_raised' = r.raised
             /\ pm_start_times' = r.start_times
             /\ pm_clock' = r.clock
             /\ pm_scopes' = IF r.raised = "none"
                             THEN [pm_scopes EXCEPT ![t] = Append(@, operation_name)]
                             ELSE pm_scopes
             /\ UNCHANGED <<pm_latencies, pm_throughput, pm_all>>

\* the exit of a scope whose body raised, without the finally clause
MeasureNoFinally(operation_name, error, now) ==
    IF error
    THEN [raised |-> "BodyError", value |-> None, start_times |-> pm_start_times,
          latencies |-> pm_latencies, all |-> pm_all, clock |-> pm_clock]
    ELSE EndOperation(operation_name, now)

\* what follows the yield of measure(...): the finally clause calls
\* end_operation(operation_name); an error of the body goes on to the caller
\* unless end_operation raises one of its own
MeasureFinally(operation_name, error, now) ==
    LET r == EndOperation(operation_name, now)
    IN [r EXCEPT !.raised = IF r.raised # "none" THEN r.raised
                            ELSE IF error THEN "BodyError" ELSE "none"]

\* the body of thread t's innermost measure(...) scope completes
\* (error = FALSE) or raises (error = TRUE), and the scope is left
MeasureExit(t, error) ==
    /\ pm_scopes[t] # <<>>
    /\ LET operation_name == pm_scopes[t][Len(pm_scopes[t])]
       IN /\ Strip(operation_name) \in DOMAIN pm_start_times => CanRecord
          /\ \E now \in Tick(pm_clock) :
                LET r == MeasureFinally(operation_name, error, now)
                IN /\ pm_call' = [op |-> IF error THEN "measure_exit_error" ELSE "measure_exit",
                                  arg |-> operation_name]
                   /\ pm_ret' = None
                   /\ pm_raised' = r.raised
                   /\ pm_start_times' = r.start_times
                   /\ pm_latencies' = r.latencies
                   /\ pm_all' = r.all
                   /\ pm_clock' = r.clock
    /\ pm_scopes' = [pm_scopes EXCEPT ![t] = SubSeq(@, 1, Len(@) - 1)]
    /\ UNCHANGED pm_throughput

\* validate_int(value, field_name, min_value=...): observability.py imports
\* the name from core.validators (line 13), which defines validate_string,
\* validate_dict and validate_list only, so the import fails with
\* ImportError.  The model carries that failure to the calls that need the
\* name and lets the rest of the module stand.
ValidateInt(value, min_value) == [raised |-> "ImportError", value |-> None]

\* PerformanceMonitor.record_throughput(operation_name, count) at time now:
\* [raised, throughput, clock]
RecordThroughput(operation_name, count, now) ==
    LET checked == ValidateString(operation_name, 1, 0)
        name == checked.value
        counted == ValidateInt(count, 1)
    IN IF checked.raised # "none"
       THEN [raised |-> checked.raised, throughput |-> pm_throughput, clock |-> pm_clock]
       ELSE IF counted.raised # "none"
       THEN [raised |-> counted.raised, throughput |-> pm_throughput, clock |-> pm_clock]
       ELSE [raised |-> "none",
             throughput |-> (name :> DequeAppend(DequeOf(pm_throughput, name),
                                                 ThroughputMaxlen,
                                                 [timestamp |-> now, count |-> count]))
                               @@ pm_throughput,
             clock |-> now]

\* a call of PerformanceMonitor.record_throughput(operation_name, count)
RecordThroughputCall(operation_name, count) ==
    \E now \in Tick(pm_clock) :
       LET r == RecordThroughput(operation_name, count, now)
       IN /\ pm_call' = [op |-> "record_throughput", arg |-> operation_name, count |-> count]
          /\ pm_ret' = None
          /\ pm_raised' = r.raised
          /\ pm_throughput' = r.throughput
          /\ pm_clock' = r.clock
          /\ UNCHANGED <<pm_latencies, pm_start_times, pm_scopes, pm_all>>

\* a monitor that has timed SampledOperation n times
PerformanceMonitorTimed(n) ==
    PerformanceMonitorHolding(SubSeq(FilledLatencies, 1, n))

----------------------------------------------------------------------------
\* PerformanceMonitor: throughput statistics

\* `window_seconds` arguments tried for get_throughput_stats; 60 is the default
WindowArgs == {0, 1, 60}

\* the dictionary returned when no entry lies in the window (lines 493-497)
ZeroThroughputStats == [count |-> 0, total |-> 0, rate_per_second |-> <<0, 1>>]

\* PerformanceMonitor.get_throughput_stats(operation_name, window_seconds) at
\* time now on the given _throughput: [raised, value].  The rate is kept as
\* the pair <<total, window_seconds>>.
GetThroughputStats(all_throughput, operation_name, window_seconds, now) ==
    LET checked == ValidateString(operation_name, 1, 0)
        window == ValidateInt(window_seconds, 1)
        cutoff_time == now - window_seconds
        entries == IF checked.value \in DOMAIN all_throughput
                   THEN all_throughput[checked.value] ELSE <<>>
        throughput_data == SelectSeq(entries, LAMBDA entry : entry.timestamp >= cutoff_time)
        total == SeqSum([i \in 1..Len(throughput_data) |-> throughput_data[i].count])
    IN IF checked.raised # "none" THEN [raised |-> checked.raised, value |-> None]
       ELSE IF window.raised # "none" THEN [raised |-> window.raised, value |-> None]
       ELSE IF throughput_data = <<>> THEN [raised |-> "none", value |-> ZeroThroughputStats]
       ELSE [raised |-> "none",
             value |-> [count |-> Len(throughput_data),
                        total |-> total,
                        rate_per_second |-> IF window_seconds > 0
                                            THEN <<total, window_seconds>>
                                            ELSE <<0, 1>>]]

\* a call of PerformanceMonitor.get_throughput_stats(operation_name, window_seconds);
\* the time is read after both arguments were checked
GetThroughputStatsCall(operation_name, window_seconds) ==
    \E now \in Tick(pm_clock) :
       LET r == GetThroughputStats(pm_throughput, operation_name, window_seconds, now)
       IN /\ pm_call' = [op |-> "get_throughput_stats", arg |-> operation_name,
                         window |-> window_seconds]
          /\ pm_ret' = r.value
          /\ pm_raised' = r.raised
          /\ pm_clock' = IF r.raised = "none" THEN now ELSE pm_clock
          /\ UNCHANGED <<pm_latencies, pm_start_times, pm_throughput, pm_scopes, pm_all>>

----------------------------------------------------------------------------
\* Gauge

\* arguments tried for Gauge.set, Gauge.inc and Gauge.dec
GaugeArgs == {-2, 1, 3, 5}

\* cap on the absolute value a Gauge is driven to
MaxGauge == 8

\* Gauge.__init__
GaugeInit ==
    /\ gauge_value = 0
    /\ gauge_call = NoCall
    /\ gauge_ret = 0
    /\ gauge_expected = 0

\* the gauge of a specification that does not use it
GaugeIdle == GaugeInit

\* the values the model lets the gauge take
GaugeRange == (0 - MaxGauge)..MaxGauge

\* Gauge.inc(value)
GaugeInc(value) ==
    /\ gauge_value + value \in GaugeRange
    /\ gauge_value' = gauge_value + value
    /\ gauge_call' = [op |-> "inc", arg |-> value]
    /\ gauge_expected' = gauge_expected + value
    /\ UNCHANGED gauge_ret

\* dec that does not take the gauge below zero
GaugeDecClamped(value) ==
    /\ gauge_value - value \in GaugeRange
    /\ gauge_value' = Max(gauge_value - value, 0)
    /\ gauge_call' = [op |-> "dec", arg |-> value]
    /\ gauge_expected' = gauge_expected - value
    /\ UNCHANGED gauge_ret

\* Gauge.dec(value)
GaugeDec(value) ==
    /\ gauge_value - value \in GaugeRange
    /\ gauge_value' = gauge_value - value
    /\ gauge_call' = [op |-> "dec", arg |-> value]
    /\ gauge_expected' = gauge_expected - value
    /\ UNCHANGED gauge_ret

\* Gauge.set(value)
GaugeSet(value) ==
    /\ gauge_value' = value
    /\ gauge_call' = [op |-> "set", arg |-> value]
    /\ gauge_expected' = value
    /\ UNCHANGED gauge_ret

\* Gauge.get()
GaugeGet ==
    /\ gauge_ret' = gauge_value
    /\ gauge_call' = [op |-> "get", arg |-> 0]
    /\ UNCHANGED <<gauge_value, gauge_expected>>

----------------------------------------------------------------------------
\* HealthCheck and HealthChecker

\* names tried for HealthCheck(...) and unregister: two checks, one of them
\* also with a leading blank, and a blank name
HealthNames == {<<"d">>, <<" ", "d">>, <<"q">>, <<" ">>}

\* `timeout` arguments tried for HealthCheck(...); 5 is the default
TimeoutArgs == {0, 5}

\* what one invocation of a probe does: return True, return False, or raise
\* Exception("boom")
ProbeOutcomes == {"True", "False", "boom"}

\* cap on the number of times one check's probe is invoked
MaxRuns == 2

\* whether the probe invocation raises
Raises(outcome) == outcome \notin {"True", "False"}

\* HealthCheck.__init__(name, check_func, timeout) with a callable
\* check_func: [raised, value].  `runs` is history: the number of times the
\* probe was invoked.
HealthCheckNew(name, timeout) ==
    LET checked == ValidateString(name, 1, 100)
    IN IF checked.raised # "none" THEN [raised |-> checked.raised, value |-> None]
       ELSE IF timeout <= 0 THEN [raised |-> "ValidationError", value |-> None]
       ELSE [raised |-> "none",
             value |-> [name |-> checked.value, timeout |-> timeout,
                        last_check |-> Nil, last_result |-> Nil, last_error |-> Nil,
                        runs |-> 0]]

\* HealthChecker.__init__
HealthCheckerInit ==
    /\ hc_checks = <<>>
    /\ hc_clock = 0
    /\ hc_call = NoCall
    /\ hc_ret = None
    /\ hc_raised = "none"

\* the health checker of a specification that does not use it
HealthCheckerIdle == HealthCheckerInit

\* the position of the check registered under name, 0 when there is none;
\* _checks is a dict, kept as the sequence of its values in insertion order
CheckAt(checks, name) ==
    IF \E i \in 1..Len(checks) : checks[i].name = name
    THEN CHOOSE i \in 1..Len(checks) : checks[i].name = name
    ELSE 0

\* HealthChecker.register(HealthCheck(name, probe, timeout))
HealthRegister(name, timeout) ==
    LET made == HealthCheckNew(name, timeout)
        at == CheckAt(hc_checks, made.value.name)
    IN /\ hc_call' = [op |-> "register", arg |-> name]
       /\ hc_ret' = None
       /\ hc_raised' = made.raised
       /\ hc_checks' = IF made.raised # "none" THEN hc_checks
                       ELSE IF at = 0 THEN Append(hc_checks, made.value)
                       ELSE [hc_checks EXCEPT ![at] = made.value]
       /\ UNCHANGED hc_clock

\* HealthChecker.unregister(name)
HealthUnregister(name) ==
    LET checked == ValidateString(name, 1, 0)
    IN /\ hc_call' = [op |-> "unregister", arg |-> name]
       /\ hc_ret' = None
       /\ hc_raised' = checked.raised
       /\ hc_checks' = IF checked.raised # "none" THEN hc_checks
                       ELSE SelectSeq(hc_checks, LAMBDA c : c.name # checked.value)
       /\ UNCHANGED hc_clock

\* run() that lets the probe's error out
HealthCheckRunNoCatch(check, outcome, start_time, now) ==
    IF Raises(outcome)
    THEN [raised |-> outcome,
          check |-> [check EXCEPT !.runs = @ + 1],
          result |-> None]
    ELSE [raised |-> "none",
          check |-> [check EXCEPT !.last_check = <<now>>,
                                  !.last_result = <<outcome = "True">>,
                                  !.last_error = Nil,
                                  !.runs = @ + 1],
          result |-> [name |-> check.name,
                      status |-> IF outcome = "True" THEN "healthy" ELSE "unhealthy",
                      duration |-> now - start_time,
                      timestamp |-> now]]

\* HealthCheck.run() when the probe's invocation does `outcome`, started at
\* start_time and over at now: [raised, check, result]
HealthCheckRun(check, outcome, start_time, now) ==
    IF Raises(outcome)
    THEN [raised |-> "none",
          check |-> [check EXCEPT !.last_check = <<now>>,
                                  !.last_result = <<FALSE>>,
                                  !.last_error = <<outcome>>,
                                  !.runs = @ + 1],
          result |-> [name |-> check.name,
                      status |-> "unhealthy",
                      error |-> outcome,
                      duration |-> now - start_time,
                      timestamp |-> now]]
    ELSE [raised |-> "none",
          check |-> [check EXCEPT !.last_check = <<now>>,
                                  !.last_result = <<outcome = "True">>,
                                  !.last_error = Nil,
                                  !.runs = @ + 1],
          result |-> [name |-> check.name,
                      status |-> IF outcome = "True" THEN "healthy" ELSE "unhealthy",
                      duration |-> now - start_time,
                      timestamp |-> now]]

\* a call of run() on the registered check at position i
HealthCheckRunCall(i, outcome) ==
    /\ i \in 1..Len(hc_checks)
    /\ hc_checks[i].runs < MaxRuns
    /\ \E now \in Tick(hc_clock) :
          LET r == HealthCheckRun(hc_checks[i], outcome, hc_clock, now)
          IN /\ hc_call' = [op |-> "run", arg |-> <<i, outcome>>]
             /\ hc_ret' = r.result
             /\ hc_raised' = r.raised
             /\ hc_checks' = [hc_checks EXCEPT ![i] = r.check]
             /\ hc_clock' = now

\* the aggregate of run_all when only the last check's result decides it
RunAllStatusLast(results) ==
    IF results = <<>> \/ results[Len(results)].status = "healthy"
    THEN "healthy" ELSE "unhealthy"

\* the aggregate of run_all: overall_healthy starts True and is cleared by
\* every result whose status is not "healthy" (lines 590-599)
RunAllStatus(results) ==
    IF \A i \in 1..Len(results) : results[i].status = "healthy"
    THEN "healthy" ELSE "unhealthy"

\* HealthChecker.run_all() when the probe of the i-th check does outcomes[i]:
\* [raised, checks, value].  The checks run in the order of the dict; an
\* error that left a run() would leave run_all with the later checks not run.
RunAll(checks, outcomes, start_time, now) ==
    LET n == Len(checks)
        ran == [i \in 1..n |-> HealthCheckRun(checks[i], outcomes[i], start_time, now)]
        failed == {i \in 1..n : ran[i].raised # "none"}
        stop == IF failed = {} THEN n + 1
                ELSE CHOOSE i \in failed : \A j \in failed : i <= j
    IN IF stop > n
       THEN [raised |-> "none",
             checks |-> [i \in 1..n |-> ran[i].check],
             value |-> [status |-> RunAllStatus([i \in 1..n |-> ran[i].result]),
                        checks |-> [i \in 1..n |-> ran[i].result],
                        timestamp |-> now]]
       ELSE [raised |-> ran[stop].raised,
             checks |-> [i \in 1..n |-> IF i <= stop THEN ran[i].check ELSE checks[i]],
             value |-> None]

\* a call of HealthChecker.run_all()
RunAllCall ==
    /\ \A i \in 1..Len(hc_checks) : hc_checks[i].runs < MaxRuns
    /\ \E outcomes \in [1..Len(hc_checks) -> ProbeOutcomes], now \in Tick(hc_clock) :
          LET r == RunAll(hc_checks, outcomes, hc_clock, now)
          IN /\ hc_call' = [op |-> "run_all", arg |-> outcomes]
             /\ hc_ret' = r.value
             /\ hc_raised' = r.raised
             /\ hc_checks' = r.checks
             /\ hc_clock' = now

\* HealthCheck.get_status()
CheckStatus(check) ==
    [name |-> check.name, last_check |-> check.last_check,
     last_result |-> check.last_result, last_error |-> check.last_error]

\* HealthChecker.get_status() at time now
HealthStatus(checks, now) ==
    [checks |-> [i \in 1..Len(checks) |-> CheckStatus(checks[i])],
     timestamp |-> now]

\* a call of HealthChecker.get_status()
HealthGetStatusCall ==
    \E now \in Tick(hc_clock) :
       /\ hc_call' = [op |-> "get_status", arg |-> 0]
       /\ hc_ret' = HealthStatus(hc_checks, now)
       /\ hc_raised' = "none"
       /\ hc_clock' = now
       /\ UNCHANGED hc_checks

----------------------------------------------------------------------------
\* Observability: the facade over the four subsystems.  A dictionary whose
\* keys are fixed is kept as a record; one keyed by names is a function on
\* names, a name being the sequence of its characters.

Subsystems == {"metrics", "tracing", "performance", "health"}

\* the key "error"
ErrorKey == <<"e", "r", "r", "o", "r">>

\* the key "default" that stands in for the empty labels key, kept as one item
DefaultKey == <<<<"default", "">>>>

\* the default service_name, "sdk"
ServiceName == <<"s", "d", "k">>

\* a str and a dict as values of one dictionary
Str(text) == [str |-> text]
Dict(items) == [dict |-> items]

\* Observability.__init__ with the given enable_* flags and a valid
\* service_name: the flags decide which subsystems are objects and which None
FacadeInit(enabled) ==
    /\ ob_enabled = enabled
    /\ ob_call = NoCall
    /\ ob_ret = None
    /\ ob_raised = "none"

\* the facade of a specification that does not use it: Observability()
FacadeIdle == FacadeInit([s \in Subsystems |-> TRUE])

\* a registry after register_counter("error").inc(1.0) and
\* register_gauge("error", labels={"a": "1"}), or an empty one
RegistryHolding(filled) ==
    /\ reg_heap = IF filled THEN <<[kind |-> "counter", value |-> 1],
                                   ZeroMetric("gauge", <<>>)>>
                  ELSE <<>>
    /\ reg_metrics = IF filled
                     THEN (ErrorKey :> ((<<>> :> 1) @@ (<<<<"a", "1">>>> :> 2)))
                     ELSE <<>>
    /\ reg_call = NoRegCall
    /\ reg_ret = 0
    /\ reg_raised = "none"
    /\ reg_prev = NoPrev

\* a tracer after thread t1 started a span at time 0 and finished it at time
\* 1 and thread t2 started a span at time 0, or a new one
TracerHolding(filled) ==
    /\ tr_spans = IF filled
                  THEN (2 :> [TraceSpanNew(1, 2, Nil, <<"r">>, 0)
                                 EXCEPT !.end_time = <<1>>, !.duration = <<1>>])
                       @@ (4 :> TraceSpanNew(3, 4, Nil, <<"r">>, 0))
                  ELSE <<>>
    /\ tr_active = IF filled THEN ("t2" :> 4) ELSE <<>>
    /\ tr_uuid = IF filled THEN 4 ELSE 0
    /\ tr_clock = IF filled THEN 1 ELSE 0
    /\ tr_scopes = [t \in Threads |-> <<>>]
    /\ tr_call = NoTracerCall
    /\ tr_ret = Nil
    /\ tr_raised = "none"

\* a monitor after start_operation("op") at time 0, end_operation("op") at
\* time 1 and start_operation("z") at time 1, or a new one
MonitorHolding(filled) ==
    /\ pm_latencies = IF filled THEN (<<"o", "p">> :> <<1>>) ELSE <<>>
    /\ pm_all = IF filled THEN (<<"o", "p">> :> <<1>>) ELSE <<>>
    /\ pm_start_times = IF filled THEN (<<"z">> :> 1) ELSE <<>>
    /\ pm_throughput = <<>>
    /\ pm_clock = IF filled THEN 1 ELSE 0
    /\ pm_scopes = [t \in Threads |-> <<>>]
    /\ pm_call = NoCall
    /\ pm_ret = None
    /\ pm_raised = "none"

\* a health checker after the checks "d" and "q" were registered and run_all
\* ran them at time 0, the probe of "d" returning True and that of "q"
\* raising, or a new one
HealthHolding(filled) ==
    /\ hc_checks = IF filled
                   THEN RunAll(<<HealthCheckNew(<<"d">>, 5).value,
                                 HealthCheckNew(<<"q">>, 5).value>>,
                               <<"True", "boom">>, 0, 0).checks
                   ELSE <<>>
    /\ hc_clock = 0
    /\ hc_call = NoCall
    /\ hc_ret = None
    /\ hc_raised = "none"

\* the values returned for a subsystem that is None
MetricsNotEnabled == (ErrorKey :> Str("Metrics not enabled"))
TracingNotEnabled == [error |-> "Tracing not enabled"]
PerformanceNotEnabled == [error |-> "Performance monitoring not enabled"]
HealthNotEnabled == [error |-> "Health checks not enabled"]

\* metric.get() of a registered instance: the value of a Counter or a Gauge,
\* the summary of a Histogram
MetricGet(metric) ==
    IF metric.kind = "histogram"
    THEN HistogramGet(metric.observations, metric.sum, metric.count, metric.buckets).value
    ELSE metric.value

\* labels_key or "default"
KeyOrDefault(labels_key) == IF labels_key = <<>> THEN DefaultKey ELSE labels_key

\* get_metrics_summary that answers {} for a registry that is None
GetMetricsSummaryEmpty(enabled, metrics, heap) ==
    IF ~enabled THEN [metric_name \in {} |-> Dict(<<>>)]
    ELSE [metric_name \in DOMAIN metrics |->
             Dict([key \in {KeyOrDefault(k) : k \in DOMAIN metrics[metric_name]} |->
                      LET labels_key == CHOOSE k \in DOMAIN metrics[metric_name] :
                                            KeyOrDefault(k) = key
                      IN MetricGet(heap[metrics[metric_name][labels_key]])])]

\* Observability.get_metrics_summary() over the registry's _metrics
GetMetricsSummary(enabled, metrics, heap) ==
    IF ~enabled THEN MetricsNotEnabled
    ELSE [metric_name \in DOMAIN metrics |->
             Dict([key \in {KeyOrDefault(k) : k \in DOMAIN metrics[metric_name]} |->
                      LET labels_key == CHOOSE k \in DOMAIN metrics[metric_name] :
                                            KeyOrDefault(k) = key
                      IN MetricGet(heap[metrics[metric_name][labels_key]])])]

\* Observability.get_traces_summary() over the tracer's _spans
GetTracesSummary(enabled, spans) ==
    IF ~enabled THEN TracingNotEnabled
    ELSE [total_spans |-> Cardinality(DOMAIN spans),
          total_traces |-> Cardinality({spans[s].trace_id : s \in DOMAIN spans}),
          finished_spans |-> Cardinality({s \in DOMAIN spans : spans[s].end_time # Nil}),
          active_spans |-> Cardinality({s \in DOMAIN spans : spans[s].end_time = Nil})]

\* Observability.get_performance_summary() at time now: [raised, value]; an
\* exception that leaves get_latency_stats or get_throughput_stats leaves it
GetPerformanceSummary(enabled, latencies, throughput, now) ==
    LET latency_stats == [operation_name \in DOMAIN latencies |->
                             GetLatencyStats(latencies, operation_name)]
        throughput_stats == [operation_name \in DOMAIN throughput |->
                                GetThroughputStats(throughput, operation_name, 60, now)]
        latency_failed == {n \in DOMAIN latencies : latency_stats[n].raised # "none"}
        throughput_failed == {n \in DOMAIN throughput : throughput_stats[n].raised # "none"}
    IN IF ~enabled THEN [raised |-> "none", value |-> PerformanceNotEnabled]
       ELSE IF latency_failed # {}
       THEN [raised |-> latency_stats[CHOOSE n \in latency_failed : TRUE].raised,
             value |-> None]
       ELSE IF throughput_failed # {}
       THEN [raised |-> throughput_stats[CHOOSE n \in throughput_failed : TRUE].raised,
             value |-> None]
       ELSE [raised |-> "none",
             value |-> [latency |-> [n \in DOMAIN latencies |-> latency_stats[n].value],
                        throughput |-> [n \in DOMAIN throughput |->
                                           throughput_stats[n].value]]]

\* get_health_status that runs the checks to report on them
GetHealthStatusRunning(enabled, checks, now) ==
    IF ~enabled THEN [checks |-> checks, value |-> HealthNotEnabled]
    ELSE LET r == RunAll(checks, [i \in 1..Len(checks) |-> "True"], now, now)
         IN [checks |-> r.checks, value |-> r.value]

\* Observability.get_health_status() at time now: [checks, value], checks
\* being the registered checks as the call leaves them
GetHealthStatus(enabled, checks, now) ==
    IF ~enabled THEN [checks |-> checks, value |-> HealthNotEnabled]
    ELSE [checks |-> checks, value |-> HealthStatus(checks, now)]

\* a call of Observability.get_metrics_summary()
ObGetMetricsSummary ==
    /\ ob_call' = [op |-> "get_metrics_summary", arg |-> 0]
    /\ ob_ret' = GetMetricsSummary(ob_enabled["metrics"], reg_metrics, reg_heap)
    /\ ob_raised' = "none"
    /\ UNCHANGED <<ob_enabled, regVars, tracerVars, pmVars, healthVars>>

\* a call of Observability.get_traces_summary()
ObGetTracesSummary ==
    /\ ob_call' = [op |-> "get_traces_summary", arg |-> 0]
    /\ ob_ret' = GetTracesSummary(ob_enabled["tracing"], tr_spans)
    /\ ob_raised' = "none"
    /\ UNCHANGED <<ob_enabled, regVars, tracerVars, pmVars, healthVars>>

\* a call of Observability.get_performance_summary()
ObGetPerformanceSummary ==
    \E now \in Tick(pm_clock) :
       LET r == GetPerformanceSummary(ob_enabled["performance"], pm_latencies,
                                      pm_throughput, now)
       IN /\ ob_call' = [op |-> "get_performance_summary", arg |-> 0]
          /\ ob_ret' = r.value
          /\ ob_raised' = r.raised
          /\ UNCHANGED <<ob_enabled, regVars, tracerVars, pmVars, healthVars>>

\* a call of Observability.get_health_status()
ObGetHealthStatus ==
    \E now \in Tick(hc_clock) :
       LET r == GetHealthStatus(ob_enabled["health"], hc_checks, now)
       IN /\ ob_call' = [op |-> "get_health_status", arg |-> 0]
          /\ ob_ret' = r.value
          /\ ob_raised' = "none"
          /\ hc_checks' = r.checks
          /\ hc_clock' = IF ob_enabled["health"] THEN now ELSE hc_clock
          /\ UNCHANGED <<ob_enabled, regVars, tracerVars, pmVars, hc_call, hc_ret, hc_raised>>

\* a call of Observability.get_full_status(): the timestamp is read at
\* `stamp`, the health status later, at `now`
ObGetFullStatus ==
    \E stamp \in Tick(hc_clock) : \E now \in Tick(stamp), pm_now \in Tick(pm_clock) :
       LET performance == GetPerformanceSummary(ob_enabled["performance"], pm_latencies,
                                                pm_throughput, pm_now)
           health == GetHealthStatus(ob_enabled["health"], hc_checks, now)
       IN /\ ob_call' = [op |-> "get_full_status", arg |-> 0]
          /\ ob_raised' = performance.raised
          /\ ob_ret' = IF performance.raised # "none" THEN None
                       ELSE [service_name |-> ServiceName,
                             timestamp |-> stamp,
                             metrics |-> GetMetricsSummary(ob_enabled["metrics"],
                                                           reg_metrics, reg_heap),
                             tracing |-> GetTracesSummary(ob_enabled["tracing"], tr_spans),
                             performance |-> performance.value,
                             health |-> health.value]
          /\ hc_checks' = IF performance.raised # "none" THEN hc_checks ELSE health.checks
          /\ hc_clock' = IF performance.raised = "none" /\ ob_enabled["health"]
                         THEN now ELSE stamp
          /\ UNCHANGED <<ob_enabled, regVars, tracerVars, pmVars, hc_call, hc_ret, hc_raised>>

----------------------------------------------------------------------------
\* The global accessor: get_observability and set_observability.  An
\* Observability instance is the number of its construction.

\* cap on the number of Observability instances constructed
MaxObservabilities == 3

\* the kinds of argument tried for set_observability: a new Observability, one
\* constructed earlier, and a value that is not an Observability
SetArgKinds == {"new", "old", "other"}

NoGlobalCall == [op |-> "none", kind |-> "none", arg |-> Nil, seen |-> Nil, made |-> 0]

\* the module as imported: _global_observability = None
GlobalInit ==
    /\ gl_instance = Nil
    /\ gl_made = 0
    /\ gl_pc = [t \in Threads |-> "idle"]
    /\ gl_local = [t \in Threads |-> Nil]
    /\ gl_call = [t \in Threads |-> NoGlobalCall]
    /\ gl_ret = [t \in Threads |-> Nil]
    /\ gl_raised = [t \in Threads |-> "none"]
    /\ gl_returned = {}
    /\ gl_was_set = FALSE

\* the global of a specification that does not use it
GlobalIdle == GlobalInit

\* the test of get_observability taken as true whatever the global holds
GetObservabilityCheckAlways(t) ==
    /\ gl_pc[t] = "idle"
    /\ gl_call' = [gl_call EXCEPT ![t] = [op |-> "get", kind |-> "none", arg |-> Nil,
                                          seen |-> gl_instance, made |-> gl_made]]
    /\ gl_raised' = [gl_raised EXCEPT ![t] = "none"]
    /\ gl_pc' = [gl_pc EXCEPT ![t] = "construct"]
    /\ UNCHANGED <<gl_instance, gl_made, gl_local, gl_ret, gl_returned, gl_was_set>>

\* get_observability() by thread t, line 726: the test
\* `_global_observability is None`
GetObservabilityCheck(t) ==
    /\ gl_pc[t] = "idle"
    /\ gl_call' = [gl_call EXCEPT ![t] = [op |-> "get", kind |-> "none", arg |-> Nil,
                                          seen |-> gl_instance, made |-> gl_made]]
    /\ gl_raised' = [gl_raised EXCEPT ![t] = "none"]
    /\ gl_pc' = [gl_pc EXCEPT ![t] = IF gl_instance = Nil THEN "construct" ELSE "return"]
    /\ UNCHANGED <<gl_instance, gl_made, gl_local, gl_ret, gl_returned, gl_was_set>>

\* line 727, right-hand side: Observability()
GetObservabilityConstruct(t) ==
    /\ gl_pc[t] = "construct"
    /\ gl_made < MaxObservabilities
    /\ gl_made' = gl_made + 1
    /\ gl_local' = [gl_local EXCEPT ![t] = <<gl_made + 1>>]
    /\ gl_pc' = [gl_pc EXCEPT ![t] = "store"]
    /\ UNCHANGED <<gl_instance, gl_call, gl_ret, gl_raised, gl_returned, gl_was_set>>

\* line 727, the store into _global_observability
GetObservabilityStore(t) ==
    /\ gl_pc[t] = "store"
    /\ gl_instance' = gl_local[t]
    /\ gl_local' = [gl_local EXCEPT ![t] = Nil]
    /\ gl_pc' = [gl_pc EXCEPT ![t] = "return"]
    /\ UNCHANGED <<gl_made, gl_call, gl_ret, gl_raised, gl_returned, gl_was_set>>

\* line 728: return _global_observability
GetObservabilityReturn(t) ==
    /\ gl_pc[t] = "return"
    /\ gl_ret' = [gl_ret EXCEPT ![t] = gl_instance]
    /\ gl_returned' = gl_returned \cup {gl_instance}
    /\ gl_pc' = [gl_pc EXCEPT ![t] = "idle"]
    /\ UNCHANGED <<gl_instance, gl_made, gl_local, gl_call, gl_raised, gl_was_set>>

\* set_observability(observability) by thread t; the argument is an
\* Observability the caller has just constructed (kind "new"), the one
\* constructed as number `old`, or a value of another type
SetObservability(t, kind, old) ==
    /\ gl_pc[t] = "idle"
    /\ kind = "new" => gl_made < MaxObservabilities
    /\ kind = "old" => old \in 1..gl_made
    /\ LET observability == IF kind = "new" THEN <<gl_made + 1>>
                            ELSE IF kind = "old" THEN <<old>> ELSE Nil
       IN /\ gl_call' = [gl_call EXCEPT ![t] =
                            [op |-> "set",
                             kind |-> IF kind = "other" THEN "other" ELSE "Observability",
                             arg |-> observability, seen |-> gl_instance, made |-> gl_made]]
          /\ gl_made' = IF kind = "new" THEN gl_made + 1 ELSE gl_made
          /\ IF kind = "other"
             THEN /\ gl_raised' = [gl_raised EXCEPT ![t] = "ValidationError"]
                  /\ UNCHANGED <<gl_instance, gl_was_set>>
             ELSE /\ gl_raised' = [gl_raised EXCEPT ![t] = "none"]
                  /\ gl_instance' = observability
                  /\ gl_was_set' = TRUE
    /\ UNCHANGED <<gl_pc, gl_local, gl_ret, gl_returned>>

----------------------------------------------------------------------------
\* Observability.get_traces_summary while other threads use the tracer

\* no call of get_traces_summary is in progress and none has returned
TraceSummaryIdle ==
    /\ ts_pc = "idle"
    /\ ts_all_spans = {}
    /\ ts_finished = 0
    /\ ts_ret = None

\* line 668: all_spans = self.tracer.get_all_spans(), the list built under
\* the tracer's lock; line 669 reads each span's trace_id, which never changes
TraceSummarySnapshot ==
    /\ ts_pc = "idle"
    /\ ts_all_spans' = DOMAIN tr_spans
    /\ ts_pc' = "finished_spans"
    /\ UNCHANGED <<ts_finished, ts_ret>>

\* line 674: len([s for s in all_spans if s.end_time is not None]), reading
\* the spans as they are now
TraceSummaryCountFinished ==
    /\ ts_pc = "finished_spans"
    /\ ts_finished' = Cardinality({s \in ts_all_spans : tr_spans[s].end_time # Nil})
    /\ ts_pc' = "active_spans"
    /\ UNCHANGED <<ts_all_spans, ts_ret>>

\* line 675: len([s for s in all_spans if s.end_time is None]), reading the
\* spans as they are now, and the return of the dictionary
TraceSummaryCountActive ==
    /\ ts_pc = "active_spans"
    /\ ts_ret' = [total_spans |-> Cardinality(ts_all_spans),
                  total_traces |-> Cardinality({tr_spans[s].trace_id : s \in ts_all_spans}),
                  finished_spans |-> ts_finished,
                  active_spans |-> Cardinality({s \in ts_all_spans :
                                                   tr_spans[s].end_time = Nil})]
    /\ ts_pc' = "idle"
    /\ UNCHANGED <<ts_all_spans, ts_finished>>

----------------------------------------------------------------------------
\* MetricsRegistry.get_all_metrics and the dictionaries it shares.  _metrics
\* is a defaultdict(dict): the first store under a name creates the name's
\* inner dict, later stores under the name go into that same dict, and
\* clear() empties _metrics without touching the inner dicts.

\* a registry that holds nothing, get_all_metrics not called
SnapshotIdle ==
    /\ sn_ids = <<>>
    /\ sn_dicts = <<>>
    /\ sn_ret = <<>>
    /\ sn_called = FALSE
    /\ sn_seen = {}

\* the (name, labels key) pairs that the mapping shows, the inner dicts being
\* as in dicts
Visible(mapping, dicts) ==
    UNION {{<<name, key>> : key \in DOMAIN dicts[mapping[name]]} : name \in DOMAIN mapping}

\* MetricsRegistry.get_all_metrics(): dict(self._metrics), a new outer
\* dictionary whose values are the inner dicts themselves
GetAllMetrics ==
    /\ sn_ret' = sn_ids
    /\ sn_called' = TRUE
    /\ sn_seen' = Visible(sn_ids, sn_dicts)
    /\ UNCHANGED <<sn_ids, sn_dicts>>

\* the store `self._metrics[name][labels_key] = ...` of a register_* call,
\* seen on the inner dicts: reg_metrics' is _metrics after the call
StoreInner(name) ==
    IF reg_raised' # "none" THEN UNCHANGED <<sn_ids, sn_dicts>>
    ELSE IF name \in DOMAIN sn_ids
    THEN /\ sn_dicts' = [sn_dicts EXCEPT ![sn_ids[name]] = reg_metrics'[name]]
         /\ UNCHANGED sn_ids
    ELSE /\ sn_dicts' = Append(sn_dicts, reg_metrics'[name])
         /\ sn_ids' = (name :> Len(sn_dicts) + 1) @@ sn_ids

\* a call of register_counter(name, labels=labels)
SnapshotRegisterCounter(name, labels) ==
    /\ RegisterCounter(name, labels)
    /\ StoreInner(name)
    /\ UNCHANGED <<sn_ret, sn_called, sn_seen>>

\* a call of register_gauge(name, labels=labels)
SnapshotRegisterGauge(name, labels) ==
    /\ RegisterGauge(name, labels)
    /\ StoreInner(name)
    /\ UNCHANGED <<sn_ret, sn_called, sn_seen>>

\* a call of clear()
SnapshotClear ==
    /\ RegistryClear
    /\ sn_ids' = <<>>
    /\ UNCHANGED <<sn_dicts, sn_ret, sn_called, sn_seen>>

\* a call of get_all_metrics()
GetAllMetricsCall ==
    /\ GetAllMetrics
    /\ UNCHANGED regVars

----------------------------------------------------------------------------
\* EventHandler (core/event_handler.py).  A handler is a record: fn is the
\* callable given to on() or once(), wrapper is 0 for a handler registered
\* with on() and the number of the wrapper closure for one registered with
\* once().  The handlers run in the emitting thread; on, off and once are
\* called between emits.

\* bounds: registered handlers (all events together), calls of once()
MaxHandlers == 2
MaxWrappers == 1
Events == {"e1", "e2"}
HandlerFns == {"f", "g"}
Plain(fn) == [fn |-> fn, wrapper |-> 0]

\* EventHandler.__init__
EventHandlerInit ==
    /\ ev_handlers = <<>>
    /\ ev_wrappers = 0
    /\ ev_pc = "idle"
    /\ ev_event = "e1"
    /\ ev_i = 0
    /\ ev_at_call = <<>>
    /\ ev_invoked = <<>>
    /\ ev_returned = FALSE
    /\ ev_raised = FALSE

\* an EventHandler that is not used
EventHandlerIdle == EventHandlerInit

\* the number of handlers registered
HandlerCount ==
    LET RECURSIVE Sum(_)
        Sum(S) == IF S = {} THEN 0
                  ELSE LET e == CHOOSE x \in S : TRUE
                       IN Len(ev_handlers[e]) + Sum(S \ {e})
    IN Sum(DOMAIN ev_handlers)

\* list.remove(h): the list without the first element equal to h
RemoveFirst(list, h) ==
    LET i == CHOOSE k \in 1..Len(list) :
                 list[k] = h /\ \A j \in 1..(k - 1) : list[j] # h
    IN SubSeq(list, 1, i - 1) \o SubSeq(list, i + 1, Len(list))

\* the number of times h occurs in list
Occurrences(list, h) == Cardinality({k \in 1..Len(list) : list[k] = h})

\* EventHandler.on(event, handler) on the dictionary of lists
Registering(handlers, event, h) ==
    IF event \in DOMAIN handlers
    THEN [handlers EXCEPT ![event] = Append(@, h)]
    ELSE (event :> <<h>>) @@ handlers

\* EventHandler.off(event, handler) on the dictionary of lists; handler is
\* None or a handler record
Unregistering(handlers, event, h) ==
    IF event \notin DOMAIN handlers THEN handlers
    ELSE IF h = None THEN [handlers EXCEPT ![event] = <<>>]
    ELSE IF Occurrences(handlers[event], h) > 0
    THEN [handlers EXCEPT ![event] = RemoveFirst(@, h)]
    ELSE handlers

\* a call of on(event, fn)
EventOn(event, fn) ==
    /\ ev_pc = "idle"
    /\ HandlerCount < MaxHandlers
    /\ ev_handlers' = Registering(ev_handlers, event, Plain(fn))
    /\ UNCHANGED <<ev_wrappers, ev_pc, ev_event, ev_i, ev_at_call, ev_invoked,
                   ev_returned, ev_raised>>

\* a call of once(event, fn): a new wrapper is registered
EventOnce(event, fn) ==
    /\ ev_pc = "idle"
    /\ HandlerCount < MaxHandlers
    /\ ev_wrappers < MaxWrappers
    /\ ev_wrappers' = ev_wrappers + 1
    /\ ev_handlers' = Registering(ev_handlers, event,
                                  [fn |-> fn, wrapper |-> ev_wrappers + 1])
    /\ UNCHANGED <<ev_pc, ev_event, ev_i, ev_at_call, ev_invoked,
                   ev_returned, ev_raised>>

\* a call of off(event, handler)
EventOff(event, h) ==
    /\ ev_pc = "idle"
    /\ ev_handlers' = Unregistering(ev_handlers, event, h)
    /\ UNCHANGED <<ev_wrappers, ev_pc, ev_event, ev_i, ev_at_call, ev_invoked,
                   ev_returned, ev_raised>>

\* the list that the loop of emit iterates: the list object held in
\* _handlers, or a new empty list when the event has none
EmitList ==
    IF ev_event \in DOMAIN ev_handlers THEN ev_handlers[ev_event] ELSE <<>>

\* emit(event), lines 46-47: the list is fetched under the lock
EmitCall(event) ==
    /\ ev_pc = "idle"
    /\ ev_pc' = "emitting"
    /\ ev_event' = event
    /\ ev_i' = 0
    /\ ev_at_call' = IF event \in DOMAIN ev_handlers THEN ev_handlers[event] ELSE <<>>
    /\ ev_invoked' = <<>>
    /\ ev_returned' = FALSE
    /\ ev_raised' = FALSE
    /\ UNCHANGED <<ev_handlers, ev_wrappers>>

\* one pass of the loop of emit, lines 48-54: the iterator yields the element
\* at its position, the handler runs; a wrapper of once() then calls
\* off(event, wrapper); a handler that raises ends the emit
EmitStep(outcome) ==
    /\ ev_pc = "emitting"
    /\ ev_i < Len(EmitList)
    /\ LET h == EmitList[ev_i + 1]
       IN /\ ev_invoked' = Append(ev_invoked, h)
          /\ IF outcome = "raises"
             THEN /\ ev_pc' = "idle"
                  /\ ev_raised' = TRUE
                  /\ UNCHANGED <<ev_handlers, ev_i>>
             ELSE /\ ev_handlers' = IF h.wrapper > 0
                                    THEN Unregistering(ev_handlers, ev_event, h)
                                    ELSE ev_handlers
                  /\ ev_i' = ev_i + 1
                  /\ UNCHANGED <<ev_pc, ev_raised>>
    /\ UNCHANGED <<ev_wrappers, ev_event, ev_at_call, ev_returned>>

\* the iterator is exhausted: emit returns
EmitReturn ==
    /\ ev_pc = "emitting"
    /\ ev_i >= Len(EmitList)
    /\ ev_pc' = "idle"
    /\ ev_returned' = TRUE
    /\ UNCHANGED <<ev_handlers, ev_wrappers, ev_event, ev_i, ev_at_call,
                   ev_invoked, ev_raised>>

----------------------------------------------------------------------------
\* OAuth2Authenticator (api/authentication.py).  _lock is a threading.Lock: a
\* thread that acquires it waits until it is free, whoever holds it.  Time is
\* counted in half hours.

\* bound: the readings of the clock
MaxClock == 3
Hour == 2
AccessToken == "oauth2_access_token"
AuthThreads == {"t1", "t2"}
AuthOps == {"get_access_token", "refresh_token"}

\* Authenticator.__init__
AuthenticatorInit ==
    /\ au_token = Nil
    /\ au_expiry = Nil
    /\ au_now = 0
    /\ au_lock = "free"
    /\ au_pc = [t \in AuthThreads |-> "idle"]
    /\ au_ret = [t \in AuthThreads |-> Nil]
    /\ au_raised = [t \in AuthThreads |-> "none"]

\* an authenticator that is not used
AuthenticatorIdle == AuthenticatorInit

\* Authenticator.is_token_valid()
IsTokenValid(token, expiry, now) ==
    IF token = Nil THEN FALSE
    ELSE IF expiry # Nil /\ now >= expiry[1] THEN FALSE
    ELSE TRUE

\* time passes
AuthTick ==
    /\ au_now < MaxClock
    /\ au_now' = au_now + 1
    /\ UNCHANGED <<au_token, au_expiry, au_lock, au_pc, au_ret, au_raised>>

\* thread t calls get_access_token() or refresh_token() and reaches the
\* `with self._lock` of its first line
AuthCall(t, op) ==
    /\ au_pc[t] = "idle"
    /\ au_pc' = [au_pc EXCEPT ![t] = IF op = "refresh_token" THEN "refresh_acquire"
                                     ELSE "get_acquire"]
    /\ au_ret' = [au_ret EXCEPT ![t] = Nil]
    /\ au_raised' = [au_raised EXCEPT ![t] = "none"]
    /\ UNCHANGED <<au_token, au_expiry, au_now, au_lock>>

\* where a thread waits for the lock, and where it is once it has it
AuthWaiting == {"get_acquire", "refresh_acquire", "refresh_get_acquire"}
AuthEntered(waiting) ==
    IF waiting = "get_acquire" THEN "get_body"
    ELSE IF waiting = "refresh_acquire" THEN "refresh_body"
    ELSE "refresh_get_body"

\* `with self._lock` (lines 62, 79): the thread gets the lock when it is free
AuthAcquire(t) ==
    /\ au_pc[t] \in AuthWaiting
    /\ au_lock = "free"
    /\ au_lock' = t
    /\ au_pc' = [au_pc EXCEPT ![t] = AuthEntered(au_pc[t])]
    /\ UNCHANGED <<au_token, au_expiry, au_now, au_ret, au_raised>>

\* get_access_token, lines 63-71, and the end of its `with`; when it was
\* called by refresh_token, refresh_token returns too and the end of its own
\* `with` releases a lock that is no longer held
GetAccessTokenBody(t) ==
    /\ au_pc[t] \in {"get_body", "refresh_get_body"}
    /\ IF IsTokenValid(au_token, au_expiry, au_now)
       THEN UNCHANGED <<au_token, au_expiry>>
       ELSE /\ au_token' = <<AccessToken>>
            /\ au_expiry' = <<au_now + Hour>>
    /\ au_lock' = "free"
    /\ au_pc' = [au_pc EXCEPT ![t] = "idle"]
    /\ IF au_pc[t] = "get_body"
       THEN /\ au_ret' = [au_ret EXCEPT ![t] = au_token']
            /\ UNCHANGED au_raised
       ELSE /\ au_raised' = [au_raised EXCEPT ![t] = "RuntimeError"]
            /\ UNCHANGED au_ret
    /\ UNCHANGED au_now

\* refresh_token, lines 80-82: the cached token is discarded and
\* get_access_token is called with the lock held
RefreshTokenBody(t) ==
    /\ au_pc[t] = "refresh_body"
    /\ au_token' = Nil
    /\ au_expiry' = Nil
    /\ au_pc' = [au_pc EXCEPT ![t] = "refresh_get_acquire"]
    /\ UNCHANGED <<au_now, au_lock, au_ret, au_raised>>

----------------------------------------------------------------------------
\* HealthChecker and HealthCheck used by several threads, statement by
\* statement.  A HealthCheck object is identified by its name.  A probe
\* returns True or False, raises, or blocks and never returns.

\* bound: calls of the HealthChecker, all threads together
MaxHealthCalls == 4
CheckNames == {"c1", "c2"}
ThreadProbeOutcomes == {"True", "False", "boom", "blocks"}
HealthOps == {"register", "unregister", "run_all", "get_status"}

\* HealthChecker.__init__, and HealthCheck.__init__ of the checks
HealthThreadsInit ==
    /\ ht_checks = <<>>
    /\ ht_lock = "free"
    /\ ht_pc = [t \in Threads |-> "idle"]
    /\ ht_arg = [t \in Threads |-> "c1"]
    /\ ht_todo = [t \in Threads |-> <<>>]
    /\ ht_outcome = [t \in Threads |-> "True"]
    /\ ht_last_check = [c \in CheckNames |-> FALSE]
    /\ ht_last_result = [c \in CheckNames |-> Nil]
    /\ ht_last_error = [c \in CheckNames |-> Nil]
    /\ ht_status = [t \in Threads |-> Nil]
    /\ ht_calls = 0
    /\ ht_completed = {}

\* a HealthChecker that is not used
HealthThreadsIdle == HealthThreadsInit

\* where a thread waits for the registry lock
HealthWaiting == {op \o "_acquire" : op \in HealthOps}

\* the thread's call, read from its position
HealthOpOf(t) ==
    CHOOSE op \in HealthOps :
        ht_pc[t] \in {op \o "_acquire", op \o "_body", op \o "_loop"}

\* some other thread's probe is blocked
OtherBlocked(t) == \E o \in Threads \ {t} : ht_pc[o] = "run_blocked"

\* the history of operations completed beside a blocked probe, thread t
\* completing op
Completing(t, op) ==
    IF OtherBlocked(t) THEN ht_completed \cup {op} ELSE ht_completed

\* thread t calls op and reaches its `with self._lock`; ht_arg is "c1" in a
\* thread that is in no register or unregister
HealthCall(t, op, name) ==
    /\ ht_pc[t] = "idle"
    /\ ht_calls < MaxHealthCalls
    /\ ht_calls' = ht_calls + 1
    /\ ht_pc' = [ht_pc EXCEPT ![t] = op \o "_acquire"]
    /\ ht_arg' = [ht_arg EXCEPT ![t] = IF op \in {"register", "unregister"} THEN name
                                       ELSE "c1"]
    /\ ht_status' = [ht_status EXCEPT ![t] = Nil]
    /\ UNCHANGED <<ht_checks, ht_lock, ht_todo, ht_outcome, ht_last_check,
                   ht_last_result, ht_last_error, ht_completed>>

\* `with self._lock` (lines 574, 580, 586, 606): the thread gets the lock
\* when it is free
HealthAcquire(t) ==
    /\ ht_pc[t] \in HealthWaiting
    /\ ht_lock = "free"
    /\ ht_lock' = t
    /\ ht_pc' = [ht_pc EXCEPT ![t] = HealthOpOf(t) \o "_body"]
    /\ UNCHANGED <<ht_checks, ht_arg, ht_todo, ht_outcome, ht_last_check,
                   ht_last_result, ht_last_error, ht_status, ht_calls, ht_completed>>

\* register, line 575, and the end of its `with`
HealthRegisterBody(t) ==
    /\ ht_pc[t] = "register_body"
    /\ ht_checks' = IF \E i \in 1..Len(ht_checks) : ht_checks[i] = ht_arg[t]
                    THEN ht_checks ELSE Append(ht_checks, ht_arg[t])
    /\ ht_lock' = "free"
    /\ ht_pc' = [ht_pc EXCEPT ![t] = "idle"]
    /\ ht_completed' = Completing(t, "register")
    /\ ht_arg' = [ht_arg EXCEPT ![t] = "c1"]
    /\ UNCHANGED <<ht_todo, ht_outcome, ht_last_check, ht_last_result,
                   ht_last_error, ht_status, ht_calls>>

\* unregister, lines 581-582, and the end of its `with`
HealthUnregisterBody(t) ==
    /\ ht_pc[t] = "unregister_body"
    /\ ht_checks' = SelectSeq(ht_checks, LAMBDA c : c # ht_arg[t])
    /\ ht_lock' = "free"
    /\ ht_pc' = [ht_pc EXCEPT ![t] = "idle"]
    /\ ht_completed' = Completing(t, "unregister")
    /\ ht_arg' = [ht_arg EXCEPT ![t] = "c1"]
    /\ UNCHANGED <<ht_todo, ht_outcome, ht_last_check, ht_last_result,
                   ht_last_error, ht_status, ht_calls>>

\* the lock kept by the thread while its probes run
LockAfterCopyHeld(t) == t

\* the lock once run_all has copied the registry, line 587, and left its
\* `with`
LockAfterCopy(t) == "free"

\* run_all, lines 586-592: the copy under the lock, the end of the `with`;
\* with nothing registered the loop is over and run_all returns
HealthRunAllCopy(t) ==
    /\ ht_pc[t] = "run_all_body"
    /\ ht_todo' = [ht_todo EXCEPT ![t] = ht_checks]
    /\ ht_lock' = LockAfterCopy(t)
    /\ ht_pc' = [ht_pc EXCEPT ![t] = IF ht_checks = <<>> THEN "idle" ELSE "run_probe"]
    /\ UNCHANGED <<ht_checks, ht_arg, ht_outcome, ht_last_check, ht_last_result,
                   ht_last_error, ht_status, ht_calls, ht_completed>>

\* HealthCheck.run, line 526: the probe is called
HealthProbe(t, outcome) ==
    /\ ht_pc[t] = "run_probe"
    /\ ht_outcome' = [ht_outcome EXCEPT ![t] = outcome]
    /\ ht_pc' = [ht_pc EXCEPT ![t] = IF outcome = "blocks" THEN "run_blocked"
                                     ELSE "store_check"]
    /\ UNCHANGED <<ht_checks, ht_lock, ht_arg, ht_todo, ht_last_check,
                   ht_last_result, ht_last_error, ht_status, ht_calls, ht_completed>>

\* HealthCheck.run, lines 528 and 540: self._last_check = datetime.now()
HealthStoreCheck(t) ==
    /\ ht_pc[t] = "store_check"
    /\ ht_last_check' = [ht_last_check EXCEPT ![Head(ht_todo[t])] = TRUE]
    /\ ht_pc' = [ht_pc EXCEPT ![t] = "store_result"]
    /\ UNCHANGED <<ht_checks, ht_lock, ht_arg, ht_todo, ht_outcome,
                   ht_last_result, ht_last_error, ht_status, ht_calls, ht_completed>>

\* HealthCheck.run, lines 529 and 541: self._last_result = result, or False
\* when the probe raised
HealthStoreResult(t) ==
    /\ ht_pc[t] = "store_result"
    /\ ht_last_result' = [ht_last_result EXCEPT ![Head(ht_todo[t])] =
                             <<ht_outcome[t] = "True">>]
    /\ ht_pc' = [ht_pc EXCEPT ![t] = "store_error"]
    /\ UNCHANGED <<ht_checks, ht_lock, ht_arg, ht_todo, ht_outcome,
                   ht_last_check, ht_last_error, ht_status, ht_calls, ht_completed>>

\* HealthCheck.run, lines 530 and 542: self._last_error = None, or str(e);
\* run returns (its locals are gone), and run_all goes to the next check or
\* returns
HealthStoreError(t) ==
    /\ ht_pc[t] = "store_error"
    /\ ht_last_error' = [ht_last_error EXCEPT ![Head(ht_todo[t])] =
                            IF ht_outcome[t] = "boom" THEN <<"boom">> ELSE Nil]
    /\ ht_todo' = [ht_todo EXCEPT ![t] = Tail(@)]
    /\ ht_outcome' = [ht_outcome EXCEPT ![t] = "True"]
    /\ ht_pc' = [ht_pc EXCEPT ![t] = IF Tail(ht_todo[t]) = <<>> THEN "idle"
                                     ELSE "run_probe"]
    /\ UNCHANGED <<ht_checks, ht_lock, ht_arg, ht_last_check,
                   ht_last_result, ht_status, ht_calls, ht_completed>>

\* HealthChecker.get_status, lines 606-607: the copy under the lock
HealthGetStatusCopy(t) ==
    /\ ht_pc[t] = "get_status_body"
    /\ ht_todo' = [ht_todo EXCEPT ![t] = ht_checks]
    /\ ht_lock' = "free"
    /\ ht_pc' = [ht_pc EXCEPT ![t] = "get_status_loop"]
    /\ UNCHANGED <<ht_checks, ht_arg, ht_outcome, ht_last_check, ht_last_result,
                   ht_last_error, ht_status, ht_calls, ht_completed>>

\* HealthChecker.get_status, lines 609-612: HealthCheck.get_status() of the
\* next check of the copy, or the return when there is none left
HealthGetStatusLoop(t) ==
    /\ ht_pc[t] = "get_status_loop"
    /\ IF ht_todo[t] = <<>>
       THEN /\ ht_pc' = [ht_pc EXCEPT ![t] = "idle"]
            /\ ht_completed' = Completing(t, "get_status")
            /\ UNCHANGED <<ht_todo, ht_status>>
       ELSE /\ ht_status' = [ht_status EXCEPT ![t] =
                                <<[name |-> Head(ht_todo[t]),
                                   last_check |-> ht_last_check[Head(ht_todo[t])],
                                   last_result |-> ht_last_result[Head(ht_todo[t])],
                                   last_error |-> ht_last_error[Head(ht_todo[t])]]>>]
            /\ ht_todo' = [ht_todo EXCEPT ![t] = Tail(@)]
            /\ UNCHANGED <<ht_pc, ht_completed>>
    /\ UNCHANGED <<ht_checks, ht_lock, ht_arg, ht_outcome, ht_last_check,
                   ht_last_result, ht_last_error, ht_calls>>

----------------------------------------------------------------------------
\* The locks of the module.  Every operation is the sequence of its lock
\* steps in program order: <<"acq", l>> is the entry of a `with self._lock`
\* on the lock l, <<"rel", l>> its exit, <<"run", l>> code of the caller (a
\* probe, the body of a scope) that runs between two sections.  One object
\* of each class: the registry holds a counter, a gauge and a histogram, the
\* tracer a span, the monitor one operation name, the checker one check.

ModuleLocks == {"registry", "counter", "gauge", "histogram", "tracer", "span",
                "monitor", "checker"}

\* a `with self._lock` block of the object l in which no other lock is used
Section(l) == <<<<"acq", l>>, <<"rel", l>>>>

\* Counter.inc, get, reset; Gauge.inc, dec, set, get; Histogram.observe, get
\* (lines 57-162): one section on the metric's own lock
MetricSteps(kind) == Section(kind)

\* register_counter, register_gauge, register_histogram (lines 173-211): the
\* metric is built before the `with`; get_all_metrics, clear (lines 257-265)
RegistrySteps == Section("registry")

\* get_metric, get_or_create_* (lines 213-255): line 216 raises before the
\* `with` is reached
GetMetricSteps == <<>>

\* TraceSpan.add_tag, add_log, finish, to_dict (lines 290-326)
SpanSteps == Section("span")

\* Tracer.start_span, get_active_span, get_spans_by_trace_id, get_all_spans
\* (lines 339-370, 393-402): the span is built before the `with`
TracerSteps == Section("tracer")

\* Tracer.finish_span (lines 372-378): span.finish() returns, then the
\* tracer's lock is taken
FinishSpanSteps == Section("span") \o Section("tracer")

\* Tracer.span (lines 380-391): get_active_span, start_span, the body of the
\* scope, finish_span
SpanScopeSteps == TracerSteps \o TracerSteps \o <<<<"run", "body">>>> \o FinishSpanSteps

\* PerformanceMonitor.start_operation, end_operation, get_latency_stats
\* (lines 415-433, 453-478)
MonitorSteps == Section("monitor")

\* PerformanceMonitor.measure (lines 435-441)
MeasureSteps == MonitorSteps \o <<<<"run", "body">>>> \o MonitorSteps

\* record_throughput, get_throughput_stats (lines 443-504): the call of
\* validate_int raises before the `with` is reached
ThroughputSteps == <<>>

\* HealthChecker.register, unregister, get_status (lines 570-582, 604-612)
CheckerSteps == Section("checker")

\* HealthChecker.run_all (lines 584-602): the copy under the lock, then the
\* probe
RunAllSteps == Section("checker") \o <<<<"run", "probe">>>>

\* get_metrics_summary that reads the metrics inside the registry's lock
GetMetricsSummaryStepsNested ==
    <<<<"acq", "registry">>>> \o MetricSteps("counter") \o MetricSteps("gauge")
        \o MetricSteps("histogram") \o <<<<"rel", "registry">>>>

\* Observability.get_metrics_summary (lines 643-661): get_all_metrics
\* returns, then get() of each metric
GetMetricsSummarySteps ==
    RegistrySteps \o MetricSteps("counter") \o MetricSteps("gauge")
        \o MetricSteps("histogram")

\* Observability.get_traces_summary (lines 663-676): get_all_spans; end_time
\* is read without the span's lock
GetTracesSummarySteps == TracerSteps

\* Observability.get_performance_summary (lines 678-698): get_latency_stats
\* of the operation name; _latencies and _throughput are read without a lock
GetPerformanceSummarySteps == MonitorSteps

\* Observability.get_health_status (lines 700-705)
GetHealthStatusSteps == CheckerSteps

\* Observability.get_full_status (lines 707-716)
GetFullStatusSteps ==
    GetMetricsSummarySteps \o GetTracesSummarySteps \o GetPerformanceSummarySteps
        \o GetHealthStatusSteps

\* the public operations, by the lock steps they make
ModuleOps ==
    {"counter", "gauge", "histogram", "registry", "get_metric", "trace_span",
     "tracer", "finish_span", "span", "monitor", "measure", "throughput",
     "checker", "run_all", "get_metrics_summary", "get_traces_summary",
     "get_performance_summary", "get_health_status", "get_full_status"}

LockSteps(op) ==
    CASE op \in {"counter", "gauge", "histogram"} -> MetricSteps(op)
      [] op = "registry" -> RegistrySteps
      [] op = "get_metric" -> GetMetricSteps
      [] op = "trace_span" -> SpanSteps
      [] op = "tracer" -> TracerSteps
      [] op = "finish_span" -> FinishSpanSteps
      [] op = "span" -> SpanScopeSteps
      [] op = "monitor" -> MonitorSteps
      [] op = "measure" -> MeasureSteps
      [] op = "throughput" -> ThroughputSteps
      [] op = "checker" -> CheckerSteps
      [] op = "run_all" -> RunAllSteps
      [] op = "get_metrics_summary" -> GetMetricsSummarySteps
      [] op = "get_traces_summary" -> GetTracesSummarySteps
      [] op = "get_performance_summary" -> GetPerformanceSummarySteps
      [] op = "get_health_status" -> GetHealthStatusSteps
      [] op = "get_full_status" -> GetFullStatusSteps

\* the objects as constructed: every lock free, no thread in an operation
LocksInit ==
    /\ lk_holder = [l \in ModuleLocks |-> "free"]
    /\ lk_op = [t \in Threads |-> "none"]
    /\ lk_i = [t \in Threads |-> 1]
    /\ lk_over = {}

\* the locks in a specification that does not use them
LocksIdle == LocksInit

\* the locks thread t holds
HeldBy(t) == {l \in ModuleLocks : lk_holder[l] = t}

\* thread t is in an operation and at a step of the given kind
AtStep(t, kind) ==
    /\ lk_op[t] # "none"
    /\ lk_i[t] <= Len(LockSteps(lk_op[t]))
    /\ LockSteps(lk_op[t])[lk_i[t]][1] = kind

\* the lock, or the code, of the step thread t is at
StepOf(t) == LockSteps(lk_op[t])[lk_i[t]][2]

\* thread t calls an operation
LockCall(t, op) ==
    /\ lk_op[t] = "none"
    /\ lk_op' = [lk_op EXCEPT ![t] = op]
    /\ lk_i' = [lk_i EXCEPT ![t] = 1]
    /\ UNCHANGED <<lk_holder, lk_over>>

\* entry of a `with self._lock`: threading.Lock, the thread waits until the
\* lock is free
LockAcquire(t) ==
    /\ AtStep(t, "acq")
    /\ lk_holder[StepOf(t)] = "free"
    /\ lk_holder' = [lk_holder EXCEPT ![StepOf(t)] = t]
    /\ lk_i' = [lk_i EXCEPT ![t] = @ + 1]
    /\ UNCHANGED <<lk_op, lk_over>>

\* exit of a `with self._lock`
LockRelease(t) ==
    /\ AtStep(t, "rel")
    /\ lk_holder' = [lk_holder EXCEPT ![StepOf(t)] = "free"]
    /\ lk_i' = [lk_i EXCEPT ![t] = @ + 1]
    /\ UNCHANGED <<lk_op, lk_over>>

\* a probe, or the body of a scope, runs and terminates
LockRun(t) ==
    /\ AtStep(t, "run")
    /\ lk_i' = [lk_i EXCEPT ![t] = @ + 1]
    /\ UNCHANGED <<lk_holder, lk_op, lk_over>>

\* the operation is over: it returns or raises
LockReturn(t) ==
    /\ lk_op[t] # "none"
    /\ lk_i[t] > Len(LockSteps(lk_op[t]))
    /\ lk_op' = [lk_op EXCEPT ![t] = "none"]
    /\ lk_i' = [lk_i EXCEPT ![t] = 1]
    /\ lk_over' = lk_over \cup {t}
    /\ UNCHANGED lk_holder

----------------------------------------------------------------------------
\* the models of concurrent and longer use, in a specification that does not
\* use them
LateIdle ==
    /\ TraceSummaryIdle
    /\ SnapshotIdle
    /\ EventHandlerIdle
    /\ AuthenticatorIdle
    /\ HealthThreadsIdle
    /\ LocksIdle

----------------------------------------------------------------------------
\* Specifications: each drives one component and leaves the others as constructed

InitCounter ==
    CounterInit /\ HistogramIdle /\ PerformanceMonitorIdle /\ RegistryIdle /\ TracerIdle
       /\ GaugeIdle /\ HealthCheckerIdle /\ FacadeIdle /\ GlobalIdle /\ LateIdle

NextCounter ==
    \/ \E t \in Threads, v \in IncArgs : CounterIncCall(t, v) /\ UNCHANGED <<histVars, pmVars, regVars, tracerVars, otherVars, lateVars>>
    \/ \E t \in Threads : CounterIncRead(t) /\ UNCHANGED <<histVars, pmVars, regVars, tracerVars, otherVars, lateVars>>
    \/ \E t \in Threads : CounterIncWrite(t) /\ UNCHANGED <<histVars, pmVars, regVars, tracerVars, otherVars, lateVars>>
    \/ \E t \in Threads : CounterGetCall(t) /\ UNCHANGED <<histVars, pmVars, regVars, tracerVars, otherVars, lateVars>>
    \/ \E t \in Threads : CounterGetReturn(t) /\ UNCHANGED <<histVars, pmVars, regVars, tracerVars, otherVars, lateVars>>
    \/ \E t \in Threads : CounterResetCall(t) /\ UNCHANGED <<histVars, pmVars, regVars, tracerVars, otherVars, lateVars>>
    \/ \E t \in Threads : CounterResetWrite(t) /\ UNCHANGED <<histVars, pmVars, regVars, tracerVars, otherVars, lateVars>>

SpecCounter == InitCounter /\ [][NextCounter]_vars

InitHist ==
    HistogramInit /\ CounterIdle /\ PerformanceMonitorIdle /\ RegistryIdle /\ TracerIdle
       /\ GaugeIdle /\ HealthCheckerIdle /\ FacadeIdle /\ GlobalIdle /\ LateIdle

NextHist ==
    \/ \E v \in ObsValues : HistogramObserve(v) /\ UNCHANGED <<counterVars, pmVars, regVars, tracerVars, otherVars, lateVars>>
    \/ HistogramGetCall /\ UNCHANGED <<counterVars, pmVars, regVars, tracerVars, otherVars, lateVars>>

SpecHist == InitHist /\ [][NextHist]_vars

InitStats ==
    /\ CounterIdle
    /\ RegistryIdle
    /\ TracerIdle
    /\ \E n \in 0..MaxSamples, k \in {1, 2} :
          HistogramHolding(Samples(n, k)) /\ PerformanceMonitorHolding(Samples(n, k))
    /\ GaugeIdle /\ HealthCheckerIdle /\ FacadeIdle /\ GlobalIdle /\ LateIdle

NextStats ==
    \/ HistogramGetCall /\ UNCHANGED <<counterVars, pmVars, regVars, tracerVars, otherVars, lateVars>>
    \/ \E name \in OpNameArgs : GetLatencyStatsCall(name) /\ UNCHANGED <<counterVars, histVars, regVars, tracerVars, otherVars, lateVars>>

SpecStats == InitStats /\ [][NextStats]_vars

InitRegistry ==
    RegistryInit /\ CounterIdle /\ HistogramIdle /\ PerformanceMonitorIdle /\ TracerIdle
       /\ GaugeIdle /\ HealthCheckerIdle /\ FacadeIdle /\ GlobalIdle /\ LateIdle

NextRegistry ==
    \/ \E name \in RegNames, labels \in RegLabels :
          RegisterCounter(name, labels) /\ UNCHANGED <<counterVars, histVars, pmVars, tracerVars, otherVars, lateVars>>
    \/ \E name \in RegNames, labels \in RegLabels :
          RegisterGauge(name, labels) /\ UNCHANGED <<counterVars, histVars, pmVars, tracerVars, otherVars, lateVars>>
    \/ \E name \in RegNames, labels \in RegLabels, buckets \in RegBucketArgs :
          RegisterHistogram(name, labels, buckets) /\ UNCHANGED <<counterVars, histVars, pmVars, tracerVars, otherVars, lateVars>>
    \/ RegistryClear /\ UNCHANGED <<counterVars, histVars, pmVars, tracerVars, otherVars, lateVars>>
    \/ \E i \in 1..MaxInstances : MetricInc(i) /\ UNCHANGED <<counterVars, histVars, pmVars, tracerVars, otherVars, lateVars>>
    \/ \E i \in 1..MaxInstances : MetricObserve(i) /\ UNCHANGED <<counterVars, histVars, pmVars, tracerVars, otherVars, lateVars>>

SpecRegistry == InitRegistry /\ [][NextRegistry]_vars

NextLookup ==
    \/ \E name \in RegNames, labels \in RegLabels :
          RegisterCounter(name, labels) /\ UNCHANGED <<counterVars, histVars, pmVars, tracerVars, otherVars, lateVars>>
    \/ \E name \in RegNames, labels \in RegLabels :
          GetMetricCall(name, labels) /\ UNCHANGED <<counterVars, histVars, pmVars, tracerVars, otherVars, lateVars>>
    \/ \E name \in RegNames, labels \in RegLabels :
          GetOrCreateCounter(name, labels) /\ UNCHANGED <<counterVars, histVars, pmVars, tracerVars, otherVars, lateVars>>
    \/ \E name \in RegNames, labels \in RegLabels :
          GetOrCreateGauge(name, labels) /\ UNCHANGED <<counterVars, histVars, pmVars, tracerVars, otherVars, lateVars>>
    \/ \E name \in RegNames, labels \in RegLabels, buckets \in RegBucketArgs :
          GetOrCreateHistogram(name, labels, buckets) /\ UNCHANGED <<counterVars, histVars, pmVars, tracerVars, otherVars, lateVars>>
    \/ RegistryClear /\ UNCHANGED <<counterVars, histVars, pmVars, tracerVars, otherVars, lateVars>>
    \/ \E i \in 1..MaxInstances : MetricInc(i) /\ UNCHANGED <<counterVars, histVars, pmVars, tracerVars, otherVars, lateVars>>

SpecLookup == InitRegistry /\ [][NextLookup]_vars

InitTracer ==
    TracerInit /\ CounterIdle /\ HistogramIdle /\ PerformanceMonitorIdle /\ RegistryIdle
       /\ GaugeIdle /\ HealthCheckerIdle /\ FacadeIdle /\ GlobalIdle /\ LateIdle

NextTracer ==
    \/ \E t \in Threads, name \in SpanNames :
          TracerStartSpanCall(t, name) /\ UNCHANGED <<counterVars, histVars, pmVars, regVars, otherVars, lateVars>>
    \/ \E t \in Threads :
          TracerGetActiveSpanCall(t) /\ UNCHANGED <<counterVars, histVars, pmVars, regVars, otherVars, lateVars>>
    \/ \E t \in Threads, s \in 1..(2 * MaxSpans) :
          TracerFinishSpanCall(t, s) /\ UNCHANGED <<counterVars, histVars, pmVars, regVars, otherVars, lateVars>>
    \/ \E t \in Threads, name \in SpanNames :
          TracerSpanEnter(t, name) /\ UNCHANGED <<counterVars, histVars, pmVars, regVars, otherVars, lateVars>>
    \/ \E t \in Threads, error \in BOOLEAN :
          TracerSpanExit(t, error) /\ UNCHANGED <<counterVars, histVars, pmVars, regVars, otherVars, lateVars>>

SpecTracer == InitTracer /\ [][NextTracer]_vars

InitMonitor ==
    /\ CounterIdle
    /\ HistogramIdle
    /\ RegistryIdle
    /\ TracerIdle
    /\ \E n \in {0, LatencyMaxlen} : PerformanceMonitorTimed(n)
    /\ GaugeIdle /\ HealthCheckerIdle /\ FacadeIdle /\ GlobalIdle /\ LateIdle

NextMonitor ==
    \/ \E name \in MonitorNames :
          StartOperationCall(name) /\ UNCHANGED <<counterVars, histVars, regVars, tracerVars, otherVars, lateVars>>
    \/ \E name \in MonitorNames :
          EndOperationCall(name) /\ UNCHANGED <<counterVars, histVars, regVars, tracerVars, otherVars, lateVars>>
    \/ \E t \in Threads, name \in MonitorNames :
          MeasureEnter(t, name) /\ UNCHANGED <<counterVars, histVars, regVars, tracerVars, otherVars, lateVars>>
    \/ \E t \in Threads, error \in BOOLEAN :
          MeasureExit(t, error) /\ UNCHANGED <<counterVars, histVars, regVars, tracerVars, otherVars, lateVars>>
    \/ \E name \in MonitorNames, count \in ThroughputCounts :
          RecordThroughputCall(name, count) /\ UNCHANGED <<counterVars, histVars, regVars, tracerVars, otherVars, lateVars>>

SpecMonitor == InitMonitor /\ [][NextMonitor]_vars

InitMonitorReads ==
    /\ CounterIdle
    /\ HistogramIdle
    /\ RegistryIdle
    /\ TracerIdle
    /\ PerformanceMonitorInit
    /\ GaugeIdle /\ HealthCheckerIdle /\ FacadeIdle /\ GlobalIdle /\ LateIdle

NextMonitorReads ==
    \/ \E name \in MonitorNames :
          StartOperationCall(name) /\ UNCHANGED <<counterVars, histVars, regVars, tracerVars, otherVars, lateVars>>
    \/ \E name \in MonitorNames :
          EndOperationCall(name) /\ UNCHANGED <<counterVars, histVars, regVars, tracerVars, otherVars, lateVars>>
    \/ \E name \in MonitorNames, count \in ThroughputCounts :
          RecordThroughputCall(name, count) /\ UNCHANGED <<counterVars, histVars, regVars, tracerVars, otherVars, lateVars>>
    \/ \E name \in MonitorNames :
          GetLatencyStatsCall(name) /\ UNCHANGED <<counterVars, histVars, regVars, tracerVars, otherVars, lateVars>>
    \/ \E name \in MonitorNames, window \in WindowArgs :
          GetThroughputStatsCall(name, window) /\ UNCHANGED <<counterVars, histVars, regVars, tracerVars, otherVars, lateVars>>

SpecMonitorReads == InitMonitorReads /\ [][NextMonitorReads]_vars

\* measure(...) scopes of two threads, and nothing else
InitMeasure ==
    /\ CounterIdle
    /\ HistogramIdle
    /\ RegistryIdle
    /\ TracerIdle
    /\ PerformanceMonitorInit
    /\ GaugeIdle /\ HealthCheckerIdle /\ FacadeIdle /\ GlobalIdle /\ LateIdle

NextMeasure ==
    \/ \E t \in Threads, name \in MonitorNames :
          MeasureEnter(t, name) /\ UNCHANGED <<counterVars, histVars, regVars, tracerVars, otherVars, lateVars>>
    \/ \E t \in Threads, error \in BOOLEAN :
          MeasureExit(t, error) /\ UNCHANGED <<counterVars, histVars, regVars, tracerVars, otherVars, lateVars>>

SpecMeasure == InitMeasure /\ [][NextMeasure]_vars

InitGauge ==
    /\ GaugeInit
    /\ CounterIdle /\ HistogramIdle /\ PerformanceMonitorIdle /\ RegistryIdle /\ TracerIdle
    /\ HealthCheckerIdle /\ FacadeIdle /\ GlobalIdle /\ LateIdle

NextGauge ==
    \/ \E v \in GaugeArgs : GaugeInc(v) /\ UNCHANGED <<counterVars, histVars, pmVars, regVars, tracerVars, healthVars, facadeVars, globalVars, lateVars>>
    \/ \E v \in GaugeArgs : GaugeDec(v) /\ UNCHANGED <<counterVars, histVars, pmVars, regVars, tracerVars, healthVars, facadeVars, globalVars, lateVars>>
    \/ \E v \in GaugeArgs : GaugeSet(v) /\ UNCHANGED <<counterVars, histVars, pmVars, regVars, tracerVars, healthVars, facadeVars, globalVars, lateVars>>
    \/ GaugeGet /\ UNCHANGED <<counterVars, histVars, pmVars, regVars, tracerVars, healthVars, facadeVars, globalVars, lateVars>>

SpecGauge == InitGauge /\ [][NextGauge]_vars

InitHealth ==
    /\ HealthCheckerInit
    /\ CounterIdle /\ HistogramIdle /\ PerformanceMonitorIdle /\ RegistryIdle /\ TracerIdle
    /\ GaugeIdle /\ FacadeIdle /\ GlobalIdle /\ LateIdle

NextHealth ==
    \/ \E name \in HealthNames, timeout \in TimeoutArgs :
          HealthRegister(name, timeout) /\ UNCHANGED <<counterVars, histVars, pmVars, regVars, tracerVars, gaugeVars, facadeVars, globalVars, lateVars>>
    \/ \E name \in HealthNames :
          HealthUnregister(name) /\ UNCHANGED <<counterVars, histVars, pmVars, regVars, tracerVars, gaugeVars, facadeVars, globalVars, lateVars>>
    \/ \E i \in 1..2, outcome \in ProbeOutcomes :
          HealthCheckRunCall(i, outcome) /\ UNCHANGED <<counterVars, histVars, pmVars, regVars, tracerVars, gaugeVars, facadeVars, globalVars, lateVars>>
    \/ RunAllCall /\ UNCHANGED <<counterVars, histVars, pmVars, regVars, tracerVars, gaugeVars, facadeVars, globalVars, lateVars>>
    \/ HealthGetStatusCall /\ UNCHANGED <<counterVars, histVars, pmVars, regVars, tracerVars, gaugeVars, facadeVars, globalVars, lateVars>>

SpecHealth == InitHealth /\ [][NextHealth]_vars

\* an Observability built with any choice of the four enable_* flags, each
\* subsystem it has being new or holding what the calls named at
\* RegistryHolding, TracerHolding, MonitorHolding and HealthHolding leave
InitFacade ==
    /\ CounterIdle /\ HistogramIdle /\ GaugeIdle /\ GlobalIdle /\ LateIdle
    /\ \E enabled \in [Subsystems -> BOOLEAN], filled \in [Subsystems -> BOOLEAN] :
          /\ \A subsystem \in Subsystems : filled[subsystem] => enabled[subsystem]
          /\ FacadeInit(enabled)
          /\ RegistryHolding(filled["metrics"])
          /\ TracerHolding(filled["tracing"])
          /\ MonitorHolding(filled["performance"])
          /\ HealthHolding(filled["health"])

NextFacade ==
    \/ ObGetMetricsSummary /\ UNCHANGED <<counterVars, histVars, gaugeVars, globalVars, lateVars>>
    \/ ObGetTracesSummary /\ UNCHANGED <<counterVars, histVars, gaugeVars, globalVars, lateVars>>
    \/ ObGetPerformanceSummary /\ UNCHANGED <<counterVars, histVars, gaugeVars, globalVars, lateVars>>
    \/ ObGetHealthStatus /\ UNCHANGED <<counterVars, histVars, gaugeVars, globalVars, lateVars>>
    \/ ObGetFullStatus /\ UNCHANGED <<counterVars, histVars, gaugeVars, globalVars, lateVars>>

SpecFacade == InitFacade /\ [][NextFacade]_vars

InitGlobal ==
    /\ GlobalInit /\ LateIdle
    /\ CounterIdle /\ HistogramIdle /\ PerformanceMonitorIdle /\ RegistryIdle /\ TracerIdle
    /\ GaugeIdle /\ HealthCheckerIdle /\ FacadeIdle

\* get_observability and set_observability called by two threads, which
\* switch between the statements of get_observability; the earlier instance
\* handed to set_observability is the first one constructed
NextGlobal ==
    \/ \E t \in Threads : GetObservabilityCheck(t) /\ UNCHANGED <<counterVars, histVars, pmVars, regVars, tracerVars, gaugeVars, healthVars, facadeVars, lateVars>>
    \/ \E t \in Threads : GetObservabilityConstruct(t) /\ UNCHANGED <<counterVars, histVars, pmVars, regVars, tracerVars, gaugeVars, healthVars, facadeVars, lateVars>>
    \/ \E t \in Threads : GetObservabilityStore(t) /\ UNCHANGED <<counterVars, histVars, pmVars, regVars, tracerVars, gaugeVars, healthVars, facadeVars, lateVars>>
    \/ \E t \in Threads : GetObservabilityReturn(t) /\ UNCHANGED <<counterVars, histVars, pmVars, regVars, tracerVars, gaugeVars, healthVars, facadeVars, lateVars>>
    \/ \E t \in Threads, kind \in SetArgKinds, old \in {1} :
          SetObservability(t, kind, old) /\ UNCHANGED <<counterVars, histVars, pmVars, regVars, tracerVars, gaugeVars, healthVars, facadeVars, lateVars>>

SpecGlobal == InitGlobal /\ [][NextGlobal]_vars

\* the one thread of the single-threaded use
MainThread == "t1"

\* get_observability and set_observability called by one thread
NextGlobalOne ==
    \/ \E t \in {MainThread} : GetObservabilityCheck(t) /\ UNCHANGED <<counterVars, histVars, pmVars, regVars, tracerVars, gaugeVars, healthVars, facadeVars, lateVars>>
    \/ \E t \in {MainThread} : GetObservabilityConstruct(t) /\ UNCHANGED <<counterVars, histVars, pmVars, regVars, tracerVars, gaugeVars, healthVars, facadeVars, lateVars>>
    \/ \E t \in {MainThread} : GetObservabilityStore(t) /\ UNCHANGED <<counterVars, histVars, pmVars, regVars, tracerVars, gaugeVars, healthVars, facadeVars, lateVars>>
    \/ \E t \in {MainThread} : GetObservabilityReturn(t) /\ UNCHANGED <<counterVars, histVars, pmVars, regVars, tracerVars, gaugeVars, healthVars, facadeVars, lateVars>>
    \/ \E t \in {MainThread}, kind \in SetArgKinds, old \in 1..MaxObservabilities :
          SetObservability(t, kind, old) /\ UNCHANGED <<counterVars, histVars, pmVars, regVars, tracerVars, gaugeVars, healthVars, facadeVars, lateVars>>

SpecGlobalOne == InitGlobal /\ [][NextGlobalOne]_vars

\* a thread computes get_traces_summary while the threads start and finish spans
InitTraceSummary ==
    /\ TracerInit /\ TraceSummaryIdle
    /\ CounterIdle /\ HistogramIdle /\ PerformanceMonitorIdle /\ RegistryIdle
    /\ GaugeIdle /\ HealthCheckerIdle /\ FacadeIdle /\ GlobalIdle
    /\ SnapshotIdle /\ EventHandlerIdle /\ AuthenticatorIdle /\ HealthThreadsIdle /\ LocksIdle

NextTraceSummary ==
    \/ \E t \in Threads, name \in SpanNames :
          TracerStartSpanCall(t, name) /\ UNCHANGED <<counterVars, histVars, pmVars, regVars, otherVars, summaryVars, snapshotVars, eventVars, authVars, healthThreadVars, lockVars>>
    \/ \E t \in Threads, s \in 1..(2 * MaxSpans) :
          TracerFinishSpanCall(t, s) /\ UNCHANGED <<counterVars, histVars, pmVars, regVars, otherVars, summaryVars, snapshotVars, eventVars, authVars, healthThreadVars, lockVars>>
    \/ TraceSummarySnapshot /\ UNCHANGED <<counterVars, histVars, pmVars, regVars, tracerVars, otherVars, snapshotVars, eventVars, authVars, healthThreadVars, lockVars>>
    \/ TraceSummaryCountFinished /\ UNCHANGED <<counterVars, histVars, pmVars, regVars, tracerVars, otherVars, snapshotVars, eventVars, authVars, healthThreadVars, lockVars>>
    \/ TraceSummaryCountActive /\ UNCHANGED <<counterVars, histVars, pmVars, regVars, tracerVars, otherVars, snapshotVars, eventVars, authVars, healthThreadVars, lockVars>>

SpecTraceSummary == InitTraceSummary /\ [][NextTraceSummary]_vars

InitSnapshot ==
    /\ RegistryInit /\ SnapshotIdle
    /\ CounterIdle /\ HistogramIdle /\ PerformanceMonitorIdle /\ TracerIdle
    /\ GaugeIdle /\ HealthCheckerIdle /\ FacadeIdle /\ GlobalIdle
    /\ TraceSummaryIdle /\ EventHandlerIdle /\ AuthenticatorIdle /\ HealthThreadsIdle /\ LocksIdle

NextSnapshot ==
    \/ \E name \in RegNames, labels \in RegLabels :
          SnapshotRegisterCounter(name, labels) /\ UNCHANGED <<counterVars, histVars, pmVars, tracerVars, otherVars, summaryVars, eventVars, authVars, healthThreadVars, lockVars>>
    \/ \E name \in RegNames, labels \in RegLabels :
          SnapshotRegisterGauge(name, labels) /\ UNCHANGED <<counterVars, histVars, pmVars, tracerVars, otherVars, summaryVars, eventVars, authVars, healthThreadVars, lockVars>>
    \/ SnapshotClear /\ UNCHANGED <<counterVars, histVars, pmVars, tracerVars, otherVars, summaryVars, eventVars, authVars, healthThreadVars, lockVars>>
    \/ GetAllMetricsCall /\ UNCHANGED <<counterVars, histVars, pmVars, tracerVars, otherVars, summaryVars, eventVars, authVars, healthThreadVars, lockVars>>

SpecSnapshot == InitSnapshot /\ [][NextSnapshot]_vars

\* one thread registers and unregisters handlers and emits events
InitEvents ==
    /\ EventHandlerInit
    /\ CounterIdle /\ HistogramIdle /\ PerformanceMonitorIdle /\ RegistryIdle /\ TracerIdle
    /\ GaugeIdle /\ HealthCheckerIdle /\ FacadeIdle /\ GlobalIdle
    /\ TraceSummaryIdle /\ SnapshotIdle /\ AuthenticatorIdle /\ HealthThreadsIdle /\ LocksIdle

NextEvents ==
    \/ \E event \in Events, fn \in HandlerFns :
          EventOn(event, fn) /\ UNCHANGED <<counterVars, histVars, pmVars, regVars, tracerVars, otherVars, summaryVars, snapshotVars, authVars, healthThreadVars, lockVars>>
    \/ \E event \in Events, fn \in HandlerFns :
          EventOnce(event, fn) /\ UNCHANGED <<counterVars, histVars, pmVars, regVars, tracerVars, otherVars, summaryVars, snapshotVars, authVars, healthThreadVars, lockVars>>
    \/ \E event \in Events, h \in {None} \cup {Plain(fn) : fn \in HandlerFns} :
          EventOff(event, h) /\ UNCHANGED <<counterVars, histVars, pmVars, regVars, tracerVars, otherVars, summaryVars, snapshotVars, authVars, healthThreadVars, lockVars>>
    \/ \E event \in Events :
          EmitCall(event) /\ UNCHANGED <<counterVars, histVars, pmVars, regVars, tracerVars, otherVars, summaryVars, snapshotVars, authVars, healthThreadVars, lockVars>>
    \/ \E outcome \in {"returns", "raises"} :
          EmitStep(outcome) /\ UNCHANGED <<counterVars, histVars, pmVars, regVars, tracerVars, otherVars, summaryVars, snapshotVars, authVars, healthThreadVars, lockVars>>
    \/ EmitReturn /\ UNCHANGED <<counterVars, histVars, pmVars, regVars, tracerVars, otherVars, summaryVars, snapshotVars, authVars, healthThreadVars, lockVars>>

SpecEvents == InitEvents /\ [][NextEvents]_vars

\* two threads call get_access_token and refresh_token of one authenticator
InitAuth ==
    /\ AuthenticatorInit
    /\ CounterIdle /\ HistogramIdle /\ PerformanceMonitorIdle /\ RegistryIdle /\ TracerIdle
    /\ GaugeIdle /\ HealthCheckerIdle /\ FacadeIdle /\ GlobalIdle
    /\ TraceSummaryIdle /\ SnapshotIdle /\ EventHandlerIdle /\ HealthThreadsIdle /\ LocksIdle

NextAuth ==
    \/ AuthTick /\ UNCHANGED <<counterVars, histVars, pmVars, regVars, tracerVars, otherVars, summaryVars, snapshotVars, eventVars, healthThreadVars, lockVars>>
    \/ \E t \in AuthThreads, op \in AuthOps :
          AuthCall(t, op) /\ UNCHANGED <<counterVars, histVars, pmVars, regVars, tracerVars, otherVars, summaryVars, snapshotVars, eventVars, healthThreadVars, lockVars>>
    \/ \E t \in AuthThreads :
          AuthAcquire(t) /\ UNCHANGED <<counterVars, histVars, pmVars, regVars, tracerVars, otherVars, summaryVars, snapshotVars, eventVars, healthThreadVars, lockVars>>
    \/ \E t \in AuthThreads :
          GetAccessTokenBody(t) /\ UNCHANGED <<counterVars, histVars, pmVars, regVars, tracerVars, otherVars, summaryVars, snapshotVars, eventVars, healthThreadVars, lockVars>>
    \/ \E t \in AuthThreads :
          RefreshTokenBody(t) /\ UNCHANGED <<counterVars, histVars, pmVars, regVars, tracerVars, otherVars, summaryVars, snapshotVars, eventVars, healthThreadVars, lockVars>>

SpecAuth == InitAuth /\ [][NextAuth]_vars

\* every thread that is inside a call keeps running, and a thread that waits
\* for the lock gets it if the lock is free again and again
AuthFairness ==
    \A t \in AuthThreads :
        /\ SF_authVars(AuthAcquire(t))
        /\ WF_authVars(GetAccessTokenBody(t))
        /\ WF_authVars(RefreshTokenBody(t))

SpecAuthFair == InitAuth /\ [][NextAuth]_vars /\ AuthFairness

\* two threads use one HealthChecker
InitHealthThreads ==
    /\ HealthThreadsInit
    /\ CounterIdle /\ HistogramIdle /\ PerformanceMonitorIdle /\ RegistryIdle /\ TracerIdle
    /\ GaugeIdle /\ HealthCheckerIdle /\ FacadeIdle /\ GlobalIdle
    /\ TraceSummaryIdle /\ SnapshotIdle /\ EventHandlerIdle /\ AuthenticatorIdle /\ LocksIdle

NextHealthThreads ==
    \/ \E t \in Threads, op \in HealthOps, name \in CheckNames :
          HealthCall(t, op, name) /\ UNCHANGED <<counterVars, histVars, pmVars, regVars, tracerVars, otherVars, summaryVars, snapshotVars, eventVars, authVars, lockVars>>
    \/ \E t \in Threads :
          HealthAcquire(t) /\ UNCHANGED <<counterVars, histVars, pmVars, regVars, tracerVars, otherVars, summaryVars, snapshotVars, eventVars, authVars, lockVars>>
    \/ \E t \in Threads :
          HealthRegisterBody(t) /\ UNCHANGED <<counterVars, histVars, pmVars, regVars, tracerVars, otherVars, summaryVars, snapshotVars, eventVars, authVars, lockVars>>
    \/ \E t \in Threads :
          HealthUnregisterBody(t) /\ UNCHANGED <<counterVars, histVars, pmVars, regVars, tracerVars, otherVars, summaryVars, snapshotVars, eventVars, authVars, lockVars>>
    \/ \E t \in Threads :
          HealthRunAllCopy(t) /\ UNCHANGED <<counterVars, histVars, pmVars, regVars, tracerVars, otherVars, summaryVars, snapshotVars, eventVars, authVars, lockVars>>
    \/ \E t \in Threads, outcome \in ThreadProbeOutcomes :
          HealthProbe(t, outcome) /\ UNCHANGED <<counterVars, histVars, pmVars, regVars, tracerVars, otherVars, summaryVars, snapshotVars, eventVars, authVars, lockVars>>
    \/ \E t \in Threads :
          HealthStoreCheck(t) /\ UNCHANGED <<counterVars, histVars, pmVars, regVars, tracerVars, otherVars, summaryVars, snapshotVars, eventVars, authVars, lockVars>>
    \/ \E t \in Threads :
          HealthStoreResult(t) /\ UNCHANGED <<counterVars, histVars, pmVars, regVars, tracerVars, otherVars, summaryVars, snapshotVars, eventVars, authVars, lockVars>>
    \/ \E t \in Threads :
          HealthStoreError(t) /\ UNCHANGED <<counterVars, histVars, pmVars, regVars, tracerVars, otherVars, summaryVars, snapshotVars, eventVars, authVars, lockVars>>
    \/ \E t \in Threads :
          HealthGetStatusCopy(t) /\ UNCHANGED <<counterVars, histVars, pmVars, regVars, tracerVars, otherVars, summaryVars, snapshotVars, eventVars, authVars, lockVars>>
    \/ \E t \in Threads :
          HealthGetStatusLoop(t) /\ UNCHANGED <<counterVars, histVars, pmVars, regVars, tracerVars, otherVars, summaryVars, snapshotVars, eventVars, authVars, lockVars>>

SpecHealthThreads == InitHealthThreads /\ [][NextHealthThreads]_vars

\* every thread that is inside a call keeps running, except inside a probe
\* that blocks; a thread that waits for the lock gets it if the lock is free
\* again and again
HealthFairness ==
    \A t \in Threads :
        /\ SF_healthThreadVars(HealthAcquire(t))
        /\ WF_healthThreadVars(HealthRegisterBody(t))
        /\ WF_healthThreadVars(HealthUnregisterBody(t))
        /\ WF_healthThreadVars(HealthRunAllCopy(t))
        /\ WF_healthThreadVars(HealthStoreCheck(t))
        /\ WF_healthThreadVars(HealthStoreResult(t))
        /\ WF_healthThreadVars(HealthStoreError(t))
        /\ WF_healthThreadVars(HealthGetStatusCopy(t))
        /\ WF_healthThreadVars(HealthGetStatusLoop(t))

SpecHealthThreadsFair == InitHealthThreads /\ [][NextHealthThreads]_vars /\ HealthFairness

\* two threads call the operations of the module
InitLocks ==
    /\ LocksInit
    /\ CounterIdle /\ HistogramIdle /\ PerformanceMonitorIdle /\ RegistryIdle /\ TracerIdle
    /\ GaugeIdle /\ HealthCheckerIdle /\ FacadeIdle /\ GlobalIdle
    /\ TraceSummaryIdle /\ SnapshotIdle /\ EventHandlerIdle /\ AuthenticatorIdle /\ HealthThreadsIdle

NextLocks ==
    \/ \E t \in Threads, op \in ModuleOps :
          LockCall(t, op) /\ UNCHANGED <<counterVars, histVars, pmVars, regVars, tracerVars, otherVars, summaryVars, snapshotVars, eventVars, authVars, healthThreadVars>>
    \/ \E t \in Threads :
          LockAcquire(t) /\ UNCHANGED <<counterVars, histVars, pmVars, regVars, tracerVars, otherVars, summaryVars, snapshotVars, eventVars, authVars, healthThreadVars>>
    \/ \E t \in Threads :
          LockRelease(t) /\ UNCHANGED <<counterVars, histVars, pmVars, regVars, tracerVars, otherVars, summaryVars, snapshotVars, eventVars, authVars, healthThreadVars>>
    \/ \E t \in Threads :
          LockRun(t) /\ UNCHANGED <<counterVars, histVars, pmVars, regVars, tracerVars, otherVars, summaryVars, snapshotVars, eventVars, authVars, healthThreadVars>>
    \/ \E t \in Threads :
          LockReturn(t) /\ UNCHANGED <<counterVars, histVars, pmVars, regVars, tracerVars, otherVars, summaryVars, snapshotVars, eventVars, authVars, healthThreadVars>>

SpecLocks == InitLocks /\ [][NextLocks]_vars

\* every thread that is inside an operation keeps running (probes and bodies
\* terminate), and a thread that waits for a lock gets it if the lock is
\* free again and again
LockFairness ==
    \A t \in Threads :
        /\ SF_lockVars(LockAcquire(t))
        /\ WF_lockVars(LockRelease(t))
        /\ WF_lockVars(LockRun(t))
        /\ WF_lockVars(LockReturn(t))

SpecLocksFair == InitLocks /\ [][NextLocks]_vars /\ LockFairness

----------------------------------------------------------------------------
\* Counter: properties

\* C2: whenever no Counter call is in progress, the value is the starting value
\* plus the sum of the arguments of every inc accepted since (the starting
\* value being 0 after construction and after a reset): no increment is lost,
\* however the threads' calls interleave.
C2_NoLostIncrement == AllIdle => counter_value = counter_expected

\* both threads have completed an inc with a positive argument
C2_Witness ==
    /\ AllIdle
    /\ \A t \in Threads : call[t].op = "inc" /\ call[t].arg > 0 /\ raised[t] = "none"
    /\ counter_value >= 2

\* C3: a step in which a thread calls inc(v) with v < 0 raises ValidationError
\* in that thread and leaves the counter value unchanged.
C3_NegativeIncRejected ==
    [][\A t \in Threads :
          ( /\ call'[t] # call[t] \/ raised'[t] # raised[t]
            /\ call'[t].op = "inc"
            /\ call'[t].arg < 0 )
          => ( /\ raised'[t] = "ValidationError"
               /\ pc'[t] = "idle"
               /\ counter_value' = counter_value )]_vars

\* a thread's inc(-1) has raised on a counter that holds a positive value
C3_Witness ==
    \E t \in Threads :
        /\ call[t].op = "inc" /\ call[t].arg < 0
        /\ raised[t] = "ValidationError"
        /\ counter_value > 0

\* C4 as stated: no get() returns less than an earlier get() returned,
\* whatever operations (inc, get, reset) come between.
C4_GetNeverDecreases == counter_lastGot >= counter_maxGot

\* C4 amended: the only step that lowers the value is the store of a reset(),
\* which leaves it 0; every other step leaves it at least as large as before.
C4_OnlyResetDecreases ==
    [][ \/ counter_value' >= counter_value
        \/ /\ counter_value' = 0
           /\ \E t \in Threads : pc[t] = "reset_write" /\ pc'[t] = "idle" ]_vars

\* a reset has zeroed a counter from which a get() had returned a positive value
C4_Witness ==
    /\ counter_maxGot > 0
    /\ counter_value = 0
    /\ \E t \in Threads : call[t].op = "reset" /\ pc[t] = "idle"

----------------------------------------------------------------------------
\* Histogram: properties

\* the last k elements of s
LastK(s, k) == SubSeq(s, Len(s) - k + 1, Len(s))

\* the elements of s
Range(s) == {s[i] : i \in 1..Len(s)}

\* C5: the running count is the number of all observations ever recorded, the
\* running sum is their total, and the retained window is the most recent
\* min(count, capacity) of them in arrival order.
C5_CountSumWindow ==
    /\ hist_count = Len(hist_all)
    /\ hist_sum = SeqSum(hist_all)
    /\ hist_observations =
           LastK(hist_all, IF hist_count <= hist_maxlen THEN hist_count ELSE hist_maxlen)

\* more observations were recorded than the window holds, and the evicted
\* oldest one differs from the oldest one retained
C5_Witness ==
    /\ Len(hist_all) > hist_maxlen
    /\ Len(hist_observations) = hist_maxlen
    /\ hist_all[1] # hist_observations[1]
    /\ hist_sum > SeqSum(hist_observations)

\* C6: a step that calls observe(v) with v < 0 raises ValidationError and
\* leaves the retained window, the running sum and the running count unchanged.
C6_NegativeObserveRejected ==
    [][( /\ hist_call' # hist_call \/ hist_raised' # hist_raised
         /\ hist_call'.op = "observe"
         /\ hist_call'.arg < 0 )
       => ( /\ hist_raised' = "ValidationError"
            /\ hist_observations' = hist_observations
            /\ hist_sum' = hist_sum
            /\ hist_count' = hist_count )]_vars

\* observe(-1.0) has raised on a histogram that holds observations
C6_Witness ==
    /\ hist_call.op = "observe" /\ hist_call.arg < 0
    /\ hist_raised = "ValidationError"
    /\ hist_count >= 2

\* C7: get() returns the zero-filled summary exactly when nothing has been
\* observed; otherwise count and sum are those of all observations ever
\* recorded, mean is sum/count, and min and max are the smallest and the
\* largest retained observation.
C7_GetSummary ==
    hist_call.op = "get" =>
        /\ hist_raised = "none"
        /\ (hist_ret = ZeroSummary(hist_buckets)) <=> (hist_all = <<>>)
        /\ hist_all # <<>> =>
              /\ hist_ret.count = Len(hist_all)
              /\ hist_ret.sum = SeqSum(hist_all)
              /\ hist_ret.mean[2] > 0
              /\ hist_ret.mean[1] * Len(hist_all) = SeqSum(hist_all) * hist_ret.mean[2]
              /\ hist_ret.min \in Range(hist_observations)
              /\ \A x \in Range(hist_observations) : hist_ret.min <= x
              /\ hist_ret.max \in Range(hist_observations)
              /\ \A x \in Range(hist_observations) : x <= hist_ret.max

\* get() after observing 1.0, 2.0, 3.0: count 3, sum 6.0, mean 2.0, min 1.0, max 3.0
C7_Witness ==
    /\ hist_call.op = "get"
    /\ hist_all = <<1000, 2000, 3000>>
    /\ hist_ret.count = 3 /\ hist_ret.sum = 6000
    /\ hist_ret.mean[1] = 2000 * hist_ret.mean[2]
    /\ hist_ret.min = 1000 /\ hist_ret.max = 3000

\* the boundaries b of the histogram that are the lowest one with x <= b
LowestBoundary(x) ==
    {b \in Range(hist_buckets) :
        x <= b /\ \A c \in Range(hist_buckets) : x <= c => b <= c}

\* C9: in the summary returned by get(), the count of each boundary b is the
\* number of retained observations for which b is the lowest boundary with
\* observation <= b; an observation above the highest boundary is counted
\* nowhere, so the counts add up to the number of retained observations that
\* are <= the highest boundary.
C9_BucketCounts ==
    (hist_call.op = "get" /\ hist_raised = "none") =>
        /\ DOMAIN hist_ret.buckets = Range(hist_buckets)
        /\ \A b \in Range(hist_buckets) :
              hist_ret.buckets[b] =
                  Cardinality({j \in 1..Len(hist_observations) :
                                  b \in LowestBoundary(hist_observations[j])})
        /\ SetSum(hist_ret.buckets, Range(hist_buckets)) =
              Cardinality({j \in 1..Len(hist_observations) :
                              \E b \in Range(hist_buckets) : hist_observations[j] <= b})

\* get() on a window holding an observation equal to a boundary, one below a
\* higher boundary and one above the highest boundary
C9_Witness ==
    /\ hist_call.op = "get"
    /\ hist_buckets = <<1000, 3000>>
    /\ hist_observations = <<1000, 2000, 11000>>
    /\ hist_ret.buckets[1000] = 1
    /\ hist_ret.buckets[3000] = 1

----------------------------------------------------------------------------
\* Percentiles: properties

\* k = floor(pct/100 * n)
IsFloor(k, pct, n) == 100 * k <= pct * n /\ pct * n < 100 * (k + 1)

\* x is the element at 0-based position k of the samples s in ascending order
IsAtRank(x, s, k) ==
    /\ x \in Range(s)
    /\ Cardinality({i \in 1..Len(s) : s[i] < x}) <= k
    /\ k < Cardinality({i \in 1..Len(s) : s[i] <= x})

\* x is the element of ascending s at position floor(pct/100 * n), a position
\* of s
IsPercentile(x, s, pct) ==
    \E k \in 0..(Len(s) - 1) : IsFloor(k, pct, Len(s)) /\ IsAtRank(x, s, k)

\* C8: with n >= 1 retained samples, Histogram.get() and
\* PerformanceMonitor.get_latency_stats return without an IndexError, and
\* their p50, p95 and p99 are the elements of the ascending samples at
\* positions floor(0.50 n), floor(0.95 n) and floor(0.99 n), each at most n-1.
C8_Percentiles ==
    /\ (hist_call.op = "get" /\ hist_observations # <<>>) =>
          /\ hist_raised = "none"
          /\ IsPercentile(hist_ret.p50, hist_observations, 50)
          /\ IsPercentile(hist_ret.p95, hist_observations, 95)
          /\ IsPercentile(hist_ret.p99, hist_observations, 99)
    /\ ( /\ pm_call.op = "get_latency_stats"
         /\ Strip(pm_call.arg) \in DOMAIN pm_latencies ) =>
          LET s == pm_latencies[Strip(pm_call.arg)]
          IN /\ pm_raised = "none"
             /\ IsPercentile(pm_ret.p50, s, 50)
             /\ IsPercentile(pm_ret.p95, s, 95)
             /\ IsPercentile(pm_ret.p99, s, 99)

\* both summaries were computed over 101 samples, where p50 < p95 < p99 < max
C8_Witness ==
    /\ hist_call.op = "get" /\ Len(hist_observations) = 101
    /\ hist_ret.p50 < hist_ret.p95
    /\ hist_ret.p95 < hist_ret.p99
    /\ hist_ret.p99 < hist_ret.max
    /\ pm_call.op = "get_latency_stats" /\ pm_raised = "none"
    /\ pm_ret.count = 101
    /\ pm_ret.p50 < pm_ret.p95
    /\ pm_ret.p95 < pm_ret.p99
    /\ pm_ret.p99 < pm_ret.max

----------------------------------------------------------------------------
\* MetricsRegistry: properties

RegisterOps == {"register_counter", "register_gauge", "register_histogram"}

\* the kind of metric a register_* call creates
KindOf(op) ==
    IF op = "register_counter" THEN "counter"
    ELSE IF op = "register_gauge" THEN "gauge" ELSE "histogram"

\* the instances the registry holds
Registered(metrics) ==
    {metrics[n][k] : <<n, k>> \in UNION {{n} \X DOMAIN metrics[n] : n \in DOMAIN metrics}}

\* C1: a get_or_create_counter call that follows a get_or_create_counter call
\* with the same (valid) name and the same labels returns, as that call did,
\* and returns the same Counter instance.
C1_SameInstanceTwice ==
    ( /\ reg_call.op = "get_or_create_counter"
      /\ ValidateString(reg_call.name, 1, 200).raised = "none"
      /\ reg_prev # NoPrev )
    => ( /\ reg_prev.raised = "none"
         /\ reg_raised = "none"
         /\ reg_ret # 0
         /\ reg_ret = reg_prev.ret
         /\ reg_heap[reg_ret].kind = "counter" )

\* C10: a step that calls register_counter, register_gauge or
\* register_histogram with a valid name returns an instance that did not
\* exist before, of the kind asked for and in its constructor's zero state;
\* afterwards the registry entry of (name, labels key) is that instance, and
\* the instance held there before is held nowhere in the registry.
C10_RegisterCreatesAndReplaces ==
    [][ ( /\ reg_call'.op \in RegisterOps
          /\ ValidateString(reg_call'.name, 1, 200).raised = "none" )
        => LET name == reg_call'.name
               key == LabelsKey(reg_call'.labels)
               old == Lookup(reg_metrics, name, key)
           IN /\ reg_raised' = "none"
              /\ reg_ret' \in (1..Len(reg_heap')) \ (1..Len(reg_heap))
              /\ reg_heap'[reg_ret'].kind = KindOf(reg_call'.op)
              /\ IF reg_heap'[reg_ret'].kind = "histogram"
                 THEN /\ reg_heap'[reg_ret'].observations = <<>>
                      /\ reg_heap'[reg_ret'].sum = 0
                      /\ reg_heap'[reg_ret'].count = 0
                 ELSE reg_heap'[reg_ret'].value = 0
              /\ Lookup(reg_metrics', name, key) = reg_ret'
              /\ old # 0 => old \notin Registered(reg_metrics')
              /\ \A i \in 1..Len(reg_heap) : reg_heap'[i] = reg_heap[i] ]_vars

\* a register_* call has replaced, under the same signature given with its
\* labels in another order, an instance that had accumulated a value
C10_Witness ==
    /\ reg_call.op \in RegisterOps
    /\ reg_ret = 2
    /\ Lookup(reg_metrics, reg_call.name, LabelsKey(reg_call.labels)) = 2
    /\ reg_call.labels = <<<<"b", "2">>, <<"a", "1">>>>
    /\ reg_heap[1].kind \in {"counter", "gauge"}
    /\ reg_heap[1].value > 0
    /\ 1 \notin Registered(reg_metrics)
    /\ Cardinality(Registered(reg_metrics)) = 1

\* C11: a get_or_create_gauge call with a valid name, made while a Counter is
\* registered under that name and labels key, does not raise and returns a
\* Gauge that did not exist before; afterwards the registry holds both the
\* Counter and the Gauge.
C11_GaugeBesideCounter ==
    [][ LET name == reg_call'.name
            old == Lookup(reg_metrics, name, LabelsKey(reg_call'.labels))
        IN ( /\ reg_call'.op = "get_or_create_gauge"
             /\ ValidateString(name, 1, 200).raised = "none"
             /\ old # 0
             /\ reg_heap[old].kind = "counter" )
           => ( /\ reg_raised' = "none"
                /\ reg_ret' \in (1..Len(reg_heap')) \ (1..Len(reg_heap))
                /\ reg_heap'[reg_ret'].kind = "gauge"
                /\ old \in Registered(reg_metrics')
                /\ reg_ret' \in Registered(reg_metrics') ) ]_vars

----------------------------------------------------------------------------
\* Tracer: properties

\* C12: a step in which start_span returns a span s to thread T (called
\* directly or by tracer.span) leaves s stored in the tracer, makes s what
\* get_active_span() returns in T, and leaves what get_active_span() returns
\* in every other thread as it was.
C12_StartSpanActivates ==
    [][ ( /\ tr_call'.op \in {"start_span", "span_enter"}
          /\ tr_raised' = "none" )
        => LET s == tr_ret'[1]
               T == tr_call'.thread
           IN /\ s \in DOMAIN tr_spans'
              /\ s \notin DOMAIN tr_spans
              /\ GetActiveSpan(tr_active', tr_spans', T) = <<s>>
              /\ \A u \in Threads \ {T} :
                    GetActiveSpan(tr_active', tr_spans', u)
                       = GetActiveSpan(tr_active, tr_spans, u) ]_vars

\* start_span has just returned a span to t1 while t2 has another active span
C12_Witness ==
    /\ tr_call.op = "start_span"
    /\ tr_call.thread = "t1"
    /\ tr_raised = "none"
    /\ GetActiveSpan(tr_active, tr_spans, "t1") = tr_ret
    /\ GetActiveSpan(tr_active, tr_spans, "t2") # Nil
    /\ GetActiveSpan(tr_active, tr_spans, "t2") # tr_ret

\* C13: a step in which thread T calls finish_span(s) while its active span
\* is another span s2 leaves s2 the span get_active_span() returns in T.
C13_FinishKeepsOtherActive ==
    [][ LET T == tr_call'.thread
        IN ( /\ tr_call'.op = "finish_span"
             /\ GetActiveSpan(tr_active, tr_spans, T) # Nil
             /\ GetActiveSpan(tr_active, tr_spans, T) # tr_call'.arg )
           => GetActiveSpan(tr_active', tr_spans', T)
                 = GetActiveSpan(tr_active, tr_spans, T) ]_vars

\* C14: the span c that a tracer.span(...) scope creates in thread T has, when
\* T had an active span r on entry, r's span_id as parent_span_id and r's
\* trace_id; when T had none, no parent and a trace_id no earlier span has.
C14_ScopeParent ==
    [][ ( /\ tr_call'.op = "span_enter"
          /\ tr_raised' = "none" )
        => LET c == tr_spans'[tr_ret'[1]]
               r == GetActiveSpan(tr_active, tr_spans, tr_call'.thread)
           IN IF r # Nil
              THEN /\ c.parent_span_id = <<tr_spans[r[1]].span_id>>
                   /\ c.trace_id = tr_spans[r[1]].trace_id
              ELSE /\ c.parent_span_id = Nil
                   /\ c.trace_id \notin {tr_spans[i].trace_id : i \in DOMAIN tr_spans} ]_vars

\* a scope was entered under an active root span and its span is the root's child
C14_Witness ==
    /\ tr_call.op = "span_enter"
    /\ tr_raised = "none"
    /\ \E r \in DOMAIN tr_spans :
          /\ r # tr_ret[1]
          /\ tr_spans[r].parent_span_id = Nil
          /\ tr_spans[tr_ret[1]].parent_span_id = <<r>>
          /\ tr_spans[tr_ret[1]].trace_id = tr_spans[r].trace_id

\* C15: a step that leaves a tracer.span(...) scope, its body having completed
\* or raised, leaves the scope's span with end_time and duration set, and the
\* error of a body that raised is what the caller sees.
C15_ScopeExitFinishes ==
    [][ tr_call'.op \in {"span_exit", "span_exit_error"}
        => LET s == tr_call'.arg[1]
           IN /\ tr_spans'[s].end_time # Nil
              /\ tr_spans'[s].duration # Nil
              /\ tr_spans'[s].duration[1] = tr_spans'[s].end_time[1] - tr_spans'[s].start_time
              /\ (tr_call'.op = "span_exit_error") <=> (tr_raised' = "BodyError") ]_vars

\* a scope whose body raised has been left: its span is finished with a
\* positive duration and the error reached the caller
C15_Witness ==
    /\ tr_call.op = "span_exit_error"
    /\ tr_raised = "BodyError"
    /\ tr_spans[tr_call.arg[1]].duration = <<1>>
    /\ tr_scopes[tr_call.thread] = <<>>

\* C16: a span is created with end_time and duration None, and once they are
\* set no step changes them.
C16_DurationSetOnce ==
    [][ /\ \A s \in DOMAIN tr_spans' \ DOMAIN tr_spans :
              tr_spans'[s].end_time = Nil /\ tr_spans'[s].duration = Nil
        /\ \A s \in DOMAIN tr_spans :
              tr_spans[s].end_time # Nil
                 => /\ tr_spans'[s].end_time = tr_spans[s].end_time
                    /\ tr_spans'[s].duration = tr_spans[s].duration ]_vars

----------------------------------------------------------------------------
\* PerformanceMonitor: properties

\* C17: a step that calls end_operation with a valid name that has no pending
\* start returns 0.0 without raising and leaves the latencies, the pending
\* starts and the throughput entries of every operation as they were.
C17_EndUnstarted ==
    [][ ( /\ pm_call'.op = "end_operation"
          /\ ValidateString(pm_call'.arg, 1, 0).raised = "none"
          /\ Strip(pm_call'.arg) \notin DOMAIN pm_start_times )
        => ( /\ pm_raised' = "none"
             /\ pm_ret' = 0
             /\ pm_latencies' = pm_latencies
             /\ pm_start_times' = pm_start_times
             /\ pm_throughput' = pm_throughput ) ]_vars

\* end_operation has returned 0.0 for an operation that was never timed,
\* while another operation has samples and a pending start
C17_Witness ==
    /\ pm_call.op = "end_operation"
    /\ pm_raised = "none"
    /\ pm_ret = 0
    /\ Strip(pm_call.arg) \notin DOMAIN pm_all
    /\ \E other \in DOMAIN pm_start_times :
          other # Strip(pm_call.arg) /\ other \in DOMAIN pm_latencies

\* the newest min(Len(s), k) elements of s, in order
Newest(s, k) == IF Len(s) <= k THEN s ELSE SubSeq(s, Len(s) - k + 1, Len(s))

\* C18: every operation retains at most 1000 latency samples, which are the
\* newest of all the samples recorded for it, in the order recorded, and at
\* most 100 throughput entries; the pending starts are one time per name.
C18_MonitorWindows ==
    /\ \A name \in DOMAIN pm_latencies :
          /\ Len(pm_latencies[name]) <= LatencyMaxlen
          /\ pm_latencies[name] = Newest(pm_all[name], LatencyMaxlen)
    /\ \A name \in DOMAIN pm_throughput :
          Len(pm_throughput[name]) <= ThroughputMaxlen
    /\ \A name \in DOMAIN pm_start_times :
          pm_start_times[name] \in Times

\* a sample was recorded into a full window: the oldest sample is gone and
\* the new one is the last
C18_Witness ==
    \E name \in DOMAIN pm_all :
       /\ Len(pm_all[name]) = LatencyMaxlen + 1
       /\ Len(pm_latencies[name]) = LatencyMaxlen
       /\ pm_latencies[name][1] = pm_all[name][2]
       /\ pm_latencies[name][1] # pm_all[name][1]
       /\ pm_latencies[name][LatencyMaxlen] = pm_all[name][LatencyMaxlen + 1]

\* C19: a step that leaves a measure(name) scope, its body having completed
\* or raised, leaves no pending start for name, and the error of a body that
\* raised is what the caller sees.
C19_MeasureExitEnds ==
    [][ pm_call'.op \in {"measure_exit", "measure_exit_error"}
        => ( /\ Strip(pm_call'.arg) \notin DOMAIN pm_start_times'
             /\ (pm_call'.op = "measure_exit_error") => (pm_raised' = "BodyError")
             /\ (pm_call'.op = "measure_exit") => (pm_raised' = "none") ) ]_vars

\* a measure scope whose body raised has been left: the error reached the
\* caller and the scope's duration was recorded
C19_Witness ==
    /\ pm_call.op = "measure_exit_error"
    /\ pm_raised = "BodyError"
    /\ pm_call.arg = <<"z">>
    /\ <<"z">> \in DOMAIN pm_latencies
    /\ <<"z">> \notin DOMAIN pm_start_times

\* C20: a step that calls record_throughput with a valid name raises a
\* validation error and leaves the throughput entries alone when count < 1,
\* and appends the one entry {timestamp, count} when count >= 1.
C20_RecordThroughput ==
    [][ ( /\ pm_call'.op = "record_throughput"
          /\ ValidateString(pm_call'.arg, 1, 0).raised = "none" )
        => LET name == Strip(pm_call'.arg)
               old == DequeOf(pm_throughput, name)
               new == DequeOf(pm_throughput', name)
           IN IF pm_call'.count < 1
              THEN /\ pm_raised' = "ValidationError"
                   /\ pm_throughput' = pm_throughput
              ELSE /\ pm_raised' = "none"
                   /\ new = Newest(Append(old, [timestamp |-> pm_clock',
                                                count |-> pm_call'.count]),
                                   ThroughputMaxlen)
                   /\ \A other \in DOMAIN pm_throughput \ {name} :
                         DequeOf(pm_throughput', other) = pm_throughput[other] ]_vars

\* the positions of the entries of s whose timestamp lies in the trailing
\* w seconds of time now
InWindow(s, now, w) == {i \in 1..Len(s) : s[i].timestamp >= now - w}

\* C21: get_throughput_stats(name, w) with a valid name and w >= 1 returns,
\* for the time of the call, the number of retained entries of name within
\* the trailing w seconds as count, the sum of their count fields as total,
\* and total / w as rate_per_second.
C21_ThroughputStats ==
    ( /\ pm_call.op = "get_throughput_stats"
      /\ ValidateString(pm_call.arg, 1, 0).raised = "none"
      /\ pm_call.window >= 1 )
    => LET entries == DequeOf(pm_throughput, Strip(pm_call.arg))
           within == InWindow(entries, pm_clock, pm_call.window)
           total == SetSum([i \in within |-> entries[i].count], within)
       IN /\ pm_raised = "none"
          /\ pm_ret.count = Cardinality(within)
          /\ pm_ret.total = total
          /\ pm_ret.rate_per_second[1] * pm_call.window = total * pm_ret.rate_per_second[2]

\* C22: a step that calls get_latency_stats or get_throughput_stats with a
\* valid name (and window) for which the monitor holds no entry returns the
\* zero-filled result without raising and leaves the monitor's latencies,
\* throughput entries and pending starts, and so the names it knows, as they
\* were.
C22_ReadsOfUnknownNames ==
    [][ ( /\ pm_call'.op \in {"get_latency_stats", "get_throughput_stats"}
          /\ ValidateString(pm_call'.arg, 1, 0).raised = "none"
          /\ pm_call'.op = "get_throughput_stats" => pm_call'.window >= 1
          /\ Strip(pm_call'.arg) \notin DOMAIN pm_latencies
          /\ Strip(pm_call'.arg) \notin DOMAIN pm_throughput )
        => ( /\ pm_raised' = "none"
             /\ pm_ret' = IF pm_call'.op = "get_latency_stats"
                          THEN ZeroLatencyStats ELSE ZeroThroughputStats
             /\ pm_latencies' = pm_latencies
             /\ pm_throughput' = pm_throughput
             /\ pm_start_times' = pm_start_times ) ]_vars

----------------------------------------------------------------------------
\* Behaviour under longer and overlapping use

\* C38: the summary get() returns for a histogram that has observations
\* has min <= mean <= max, mean being sum/count.
C38_MinMeanMax ==
    (hist_call.op = "get" /\ hist_raised = "none" /\ hist_all # <<>>) =>
        /\ hist_ret.min * hist_ret.mean[2] <= hist_ret.mean[1]
        /\ hist_ret.mean[1] <= hist_ret.max * hist_ret.mean[2]

\* C34: what get_active_span() returns is never a span that a finish_span
\* call has finished.
C34_ActiveSpanUnfinished ==
    (tr_call.op = "get_active_span" /\ tr_ret # Nil) =>
        tr_spans[tr_ret[1]].end_time = Nil

\* C32: a step that leaves a measure(name) scope appends exactly one latency
\* sample for name.
C32_ExitRecordsOne ==
    [][ pm_call'.op \in {"measure_exit", "measure_exit_error"}
        => LET name == Strip(pm_call'.arg)
           IN Len(DequeOf(pm_all', name)) = Len(DequeOf(pm_all, name)) + 1 ]_vars

----------------------------------------------------------------------------
\* Tracer: nested scopes

\* C30: a step in which thread T leaves a tracer.span(...) scope whose span is
\* T's active span and whose parent is a span that is not finished leaves the
\* parent as T's active span.
C30_ExitRestoresParent ==
    [][ tr_call'.op \in {"span_exit", "span_exit_error"}
        => LET s == tr_call'.arg[1]
               T == tr_call'.thread
               parent == tr_spans[s].parent_span_id
           IN ( /\ parent # Nil
                /\ tr_spans[parent[1]].end_time = Nil
                /\ GetActiveSpan(tr_active, tr_spans, T) = <<s>> )
              => GetActiveSpan(tr_active', tr_spans', T) = parent ]_vars

----------------------------------------------------------------------------
\* HealthCheck and HealthChecker: properties

\* C23: a step that calls run() on a check whose probe raises returns, with
\* status "unhealthy" and the error text in the result, last_result False and
\* last_error that text; a step that calls run_all() returns whatever the
\* probes do, having run every registered check, and reports each check under
\* its name, the raising ones as "unhealthy" with their error text.
C23_ProbeErrorsCaught ==
    [][ /\ ( /\ hc_call'.op = "run"
             /\ Raises(hc_call'.arg[2]) )
           => /\ hc_raised' = "none"
              /\ hc_ret'.status = "unhealthy"
              /\ hc_ret'.error = hc_call'.arg[2]
              /\ hc_checks'[hc_call'.arg[1]].last_result = <<FALSE>>
              /\ hc_checks'[hc_call'.arg[1]].last_error = <<hc_call'.arg[2]>>
        /\ hc_call'.op = "run_all"
           => /\ hc_raised' = "none"
              /\ Len(hc_ret'.checks) = Len(hc_checks)
              /\ \A i \in 1..Len(hc_checks) :
                    /\ hc_checks'[i].runs = hc_checks[i].runs + 1
                    /\ hc_ret'.checks[i].name = hc_checks[i].name
                    /\ Raises(hc_call'.arg[i]) =>
                          /\ hc_ret'.checks[i].status = "unhealthy"
                          /\ hc_ret'.checks[i].error = hc_call'.arg[i]
                          /\ hc_checks'[i].last_result = <<FALSE>>
                          /\ hc_checks'[i].last_error = <<hc_call'.arg[i]>> ]_vars

\* run_all() has returned after the probe of the first check raised and that
\* of the second returned True; both are reported
C23_Witness ==
    /\ hc_call.op = "run_all"
    /\ hc_call.arg = <<"boom", "True">>
    /\ hc_raised = "none"
    /\ hc_ret.checks[1].status = "unhealthy"
    /\ hc_ret.checks[2].status = "healthy"
    /\ hc_checks[1].last_error = <<"boom">>
    /\ hc_checks[2].last_result = <<TRUE>>

\* C24: a step that calls run_all() invokes the probe of every registered
\* check exactly once and of no other, reports a check "healthy" exactly when
\* its probe returned True, and returns the aggregate status "healthy" exactly
\* when every reported check is "healthy" (so also when there is none).
C24_RunAllAggregate ==
    [][ hc_call'.op = "run_all"
        => /\ hc_raised' = "none"
           /\ Len(hc_checks') = Len(hc_checks)
           /\ Len(hc_ret'.checks) = Len(hc_checks)
           /\ \A i \in 1..Len(hc_checks) :
                 /\ hc_checks'[i].runs = hc_checks[i].runs + 1
                 /\ (hc_ret'.checks[i].status = "healthy") <=> (hc_call'.arg[i] = "True")
           /\ (hc_ret'.status = "healthy")
                 <=> (\A i \in 1..Len(hc_checks) : hc_ret'.checks[i].status = "healthy") ]_vars

\* run_all() over one check whose probe returned True and one whose probe
\* raised has returned the aggregate "unhealthy"
C24_Witness ==
    /\ hc_call.op = "run_all"
    /\ hc_call.arg = <<"True", "boom">>
    /\ hc_raised = "none"
    /\ hc_ret.status = "unhealthy"
    /\ hc_ret.checks[1].status = "healthy"
    /\ \A i \in 1..2 : hc_checks[i].runs >= 1

----------------------------------------------------------------------------
\* Observability: properties

\* C25: each of the four summary methods returns its "not enabled" value when
\* the facade was built with its subsystem disabled, and never returns that
\* value when the subsystem is enabled, whatever the subsystem holds.
C25_NotEnabledMarker ==
    /\ ob_call.op = "get_metrics_summary"
          => ((ob_ret = MetricsNotEnabled) <=> ~ob_enabled["metrics"])
    /\ ob_call.op = "get_traces_summary"
          => ((ob_ret = TracingNotEnabled) <=> ~ob_enabled["tracing"])
    /\ ob_call.op = "get_performance_summary"
          => ((ob_ret = PerformanceNotEnabled) <=> ~ob_enabled["performance"])
    /\ ob_call.op = "get_health_status"
          => ((ob_ret = HealthNotEnabled) <=> ~ob_enabled["health"])

\* get_metrics_summary() of a facade without metrics has returned the
\* "not enabled" value, which is not the empty summary
C25_Witness ==
    /\ ob_call.op = "get_metrics_summary"
    /\ ~ob_enabled["metrics"]
    /\ ob_ret = MetricsNotEnabled
    /\ DOMAIN ob_ret # {}

FacadeReads == {"get_metrics_summary", "get_traces_summary", "get_performance_summary",
                "get_health_status", "get_full_status"}

\* C26: a step that calls get_full_status() or one of the four summary
\* methods leaves the registry's entries and the metrics' values, the spans
\* and the active spans, the pending starts and the latency and throughput
\* samples, and every health check's last_check, last_result, last_error and
\* number of probe invocations as they were.
C26_ReadsDoNotMutate ==
    [][ ob_call'.op \in FacadeReads
        => /\ reg_metrics' = reg_metrics
           /\ reg_heap' = reg_heap
           /\ tr_spans' = tr_spans
           /\ tr_active' = tr_active
           /\ pm_start_times' = pm_start_times
           /\ pm_latencies' = pm_latencies
           /\ pm_throughput' = pm_throughput
           /\ hc_checks' = hc_checks ]_vars

\* get_full_status() has returned on a facade whose four subsystems hold
\* data; it reports the failed check from its memoized result, and the
\* probes have run once, in the run_all that preceded
C26_Witness ==
    /\ ob_call.op = "get_full_status"
    /\ ob_raised = "none"
    /\ \A subsystem \in Subsystems : ob_enabled[subsystem]
    /\ Len(hc_checks) = 2
    /\ ob_ret.health.checks[2].last_error = <<"boom">>
    /\ \A i \in 1..2 : hc_checks[i].runs = 1
    /\ ob_ret.tracing.active_spans = 1
    /\ ob_ret.tracing.finished_spans = 1
    /\ DOMAIN pm_start_times # {}
    /\ DOMAIN ob_ret.metrics = {ErrorKey}

----------------------------------------------------------------------------
\* The global accessor: properties

\* C27: with one thread calling, get_observability() returns the global
\* instance: the one that was there when it was called, or, when there was
\* none, one constructed by this call; the global instance changes only from
\* none to that default and by a set_observability(o) with an Observability o,
\* which makes it o; set_observability with another value raises
\* ValidationError and leaves the global instance as it was.
C27_SingleThread ==
    [][ LET t == MainThread
        IN /\ (gl_pc[t] = "return" /\ gl_pc'[t] = "idle")
                 => /\ gl_ret'[t] # Nil
                    /\ gl_ret'[t] = gl_instance'
                    /\ IF gl_call[t].seen # Nil
                       THEN gl_ret'[t] = gl_call[t].seen
                       ELSE gl_ret'[t] = <<gl_call[t].made + 1>>
           /\ gl_instance' # gl_instance
                 => \/ gl_instance = Nil /\ gl_pc[t] = "store"
                    \/ gl_call'[t].op = "set" /\ gl_call'[t].kind = "Observability"
           /\ (gl_call'[t].op = "set" /\ gl_call'[t].kind = "Observability")
                 => /\ gl_raised'[t] = "none"
                    /\ gl_instance' = gl_call'[t].arg
           /\ (gl_call'[t].op = "set" /\ gl_call'[t].kind = "other")
                 => /\ gl_raised'[t] = "ValidationError"
                    /\ gl_instance' = gl_instance ]_vars

\* get_observability() returned the default it constructed, then
\* set_observability(o) replaced it, and get_observability() has returned o
C27_Witness ==
    /\ <<1>> \in gl_returned
    /\ gl_was_set
    /\ gl_call[MainThread].op = "get"
    /\ gl_pc[MainThread] = "idle"
    /\ gl_ret[MainThread] = <<2>>
    /\ gl_instance = <<2>>

\* C29: as long as no set_observability has stored, all get_observability()
\* calls that have returned have returned one and the same instance; and the
\* store of a lazily constructed default happens only while the global is
\* still None, so it replaces neither an instance a set_observability stored
\* nor another default.
C29_ConcurrentGet ==
    [][ /\ ~gl_was_set' => Cardinality(gl_returned') <= 1
        /\ \A t \in Threads :
              (gl_pc[t] = "store" /\ gl_pc'[t] = "return") => gl_instance = Nil ]_vars

----------------------------------------------------------------------------
\* Gauge: properties

\* C28: get() returns the argument of the last set (0 when there was none)
\* plus the arguments of the incs and minus the arguments of the decs made
\* since, whatever their signs.
C28_GaugeValue ==
    /\ gauge_value = gauge_expected
    /\ gauge_call.op = "get" => gauge_ret = gauge_expected

\* get() has returned 7, the value after set(5); inc(3); dec(1)
C28_Witness ==
    /\ gauge_call.op = "get"
    /\ gauge_ret = 7
    /\ gauge_expected = 7

----------------------------------------------------------------------------
\* Summaries computed while other threads act

\* C31: in every dictionary get_traces_summary() returns, finished_spans and
\* active_spans add up to total_spans.
C31_SummaryAddsUp ==
    ts_ret # None => ts_ret.finished_spans + ts_ret.active_spans = ts_ret.total_spans

\* C33: the (name, labels key) pairs that the mapping returned by
\* get_all_metrics() shows stay the ones it showed when it was returned,
\* whatever register_* and clear calls follow.
C33_SnapshotKeepsEntries ==
    sn_called => Visible(sn_ret, sn_dicts) = sn_seen

----------------------------------------------------------------------------
\* EventHandler: properties

\* C39: when an emit has returned without a handler raising, every handler
\* that was registered for the event when emit was called has been invoked
\* as many times as it was registered then (once, for a handler registered
\* once), also when handlers registered with once() were among them.
C39_EmitInvokesEach ==
    (ev_returned /\ ~ev_raised) =>
        \A k \in 1..Len(ev_at_call) :
            Occurrences(ev_invoked, ev_at_call[k]) = Occurrences(ev_at_call, ev_at_call[k])

----------------------------------------------------------------------------
\* OAuth2Authenticator: properties

\* C40: a call of refresh_token() terminates: every thread that has entered
\* refresh_token is later back from it, with the new token returned, the
\* token valid and not holding the lock.
C40_RefreshTerminates ==
    \A t \in AuthThreads :
        (au_pc[t] = "refresh_acquire") ~>
            (au_pc[t] = "idle" /\ au_ret[t] = <<AccessToken>> /\ au_lock # t)

----------------------------------------------------------------------------
\* HealthChecker used by several threads: properties

\* C35: no HealthCheck.get_status() result has last_result = true together
\* with a last_error that is not null, also when run() of the check executes
\* in two threads at once.
C35_ResultAndErrorAgree ==
    \A t \in Threads :
        ht_status[t] # Nil =>
            ~(ht_status[t][1].last_result = <<TRUE>> /\ ht_status[t][1].last_error # Nil)

\* C36: a thread that has called register, unregister or get_status
\* completes the call, whatever the other thread's run_all is doing, also
\* when that run_all is inside a probe that never returns.
C36_OthersComplete ==
    \A t \in Threads :
        (ht_pc[t] \in {"register_acquire", "unregister_acquire", "get_status_acquire"})
            ~> (ht_pc[t] = "idle")

\* a probe called by run_all is blocked, and beside it the other thread has
\* completed an unregister and a get_status
C36_Witness ==
    /\ \E t \in Threads : ht_pc[t] = "run_blocked"
    /\ {"unregister", "get_status"} \subseteq ht_completed

----------------------------------------------------------------------------
\* The locks of the module: properties

====
